---- MODULE Spec2Model ----
(***************************************************************************)
(* Model of monkey-meltdown: the skiing game core (the N64Game component  *)
(* of src/components/StartScreen.tsx, lines 1091-2425), the saved monkeys  *)
(* (src/services/monkeyStorageService.ts), the menu playlist               *)
(* (src/services/audioService.ts) and the character screen                 *)
(* (src/components/CharacterGenerator.tsx, src/App.tsx).                   *)
(*                                                                         *)
(* Numbers.  The code computes in floating point.  The model is in fixed   *)
(* point: one world unit is 1000, so every constant of the code is the     *)
(* code's value times 1000 (PLAY_WIDTH 25 is 25000, gravity 0.025 is 25,   *)
(* WORLD_SPEED_BASE 0.13 is 130).  A product with a fraction (x * 0.2) is  *)
(* Frac(x, 2, 10), which truncates toward zero.                            *)
(*                                                                         *)
(* Time.  Wall-clock time advances in steps of one second (AdvanceTime).   *)
(* A pending setTimeout / setInterval is the number of seconds left until  *)
(* it is due; a timer that is due fires before time advances further.      *)
(*                                                                         *)
(* Objects.  An object's z is kept as the interval it lies in with respect *)
(* to the two thresholds the frame callback tests: "ahead" (z <= -2, not   *)
(* yet within the hitbox), "near" (|z| < 2.0, line 2121) and "passed"      *)
(* (2 <= z <= 20); an object with z > 20 is removed (line 2179).  z grows  *)
(* by speedRef > 0 in every frame of play, so an object moves through the  *)
(* intervals in this order; the frame in which it crosses a threshold is   *)
(* an input of the frame (the set adv).                                    *)
(*                                                                         *)
(* Terrain.  getTerrainHeight is a trigonometric field; the height and the *)
(* two finite-difference slopes the frame reads at the player are inputs   *)
(* of the frame, drawn from the environment's sets.                        *)
(***************************************************************************)
EXTENDS Integers, Sequences, FiniteSets, TLC

\* ---------------------------------------------------------------- constants
WORLD_SPEED_BASE == 130
SEGMENT_LENGTH == 50000
SEGMENT_COUNT == 3
PLAY_WIDTH == 25000
LEVEL_SPEED_STEP == 22
SPEED_FLOOR == 90
CRASH_SPEED == 100
RAMP_SPEED_BOOST == 30
JUMP_VELOCITY == 450
GRAVITY == 25
HITBOX == 2000
KEY_FORCE == 250
POINTER_SENSITIVITY == 80
DRAG_THRESHOLD == 30
GROUND_MESH_Y == 1500
GROUND_SINK == 300
TIME_BUDGET == 60
INVINCIBLE_SECONDS == 5
INTERVAL_SECONDS == 1
PIZZA_PENALTY == 50
BANANA_POINTS == 100
MANGO_POINTS == 500
SPAGHETTI_POINTS == 1000
RAMP_POINTS == 200
INITIAL_COUNT_FIRST == 5
INITIAL_COUNT_LATER == 12
BARRIER_ROWS == 3
BARRIER_OFFSET == 26000
BARRIER_SPACING == 1500

\* ------------------------------------------------------------------- bounds
\* the advance action is offered while level < MaxLevel
MaxLevel == 2

\* an object's frames in the hitbox after its hit are counted up to MaxOver
MaxOver == 3

\* ---------------------------------------------------------------- variables
VARIABLES
    isDemo,          \* prop isDemo / isDemoRef
    mounted,         \* the component is mounted (its effects' cleanups have not run)
    monkeyName,      \* prop monkeyName / monkeyNameRef.current
    terrain,         \* the last getTerrainHeight call sampled: [x, z, height]
    gameState,       \* React state gameState
    gameStateRef,    \* gameStateRef.current (synced by an effect)
    gameActive,      \* gameActiveRef.current
    level,           \* React state level
    levelRef,        \* levelRef.current
    score,           \* React state score
    timeRemaining,   \* React state timeRemaining
    countdown,       \* the setInterval of the timer effect: << >> or <<seconds left>>
    sessionScores,   \* records handed to addSessionScore
    speed,           \* speedRef.current
    playerX,         \* playerXRef.current (lateralPosition)
    posX,            \* player.position.x
    posY,            \* player.position.y
    velY,            \* playerVelocityYRef.current
    isAirborne,      \* isAirborneRef.current
    isInvincible,    \* isInvincibleRef.current
    invTimers,       \* pending setTimeout(() => isInvincible = false): seconds left
    moveDirection,   \* moveDirectionRef.current
    prevDirection,   \* prevDirectionRef.current
    isDragging,      \* isDraggingRef.current
    lastPointerX,    \* lastPointerXRef.current
    dragDir,         \* pointerDragDirectionRef.current
    dragAcc,         \* pointerDragAccumulatorRef.current
    press,           \* history: the last key press handleKeyDown accepted
    segZ,            \* groundSegmentsRef.current[i].position.z
    objects,         \* objectsRef.current
    frames,          \* history: frames of play run since the last startGame
    ticks,           \* history: countdown callbacks run since the last startGame
    jump,            \* history: the jump in progress, [n, flat, from, groundY]
    idle,            \* history: frame callbacks run since the level was completed
    resolved,        \* history: the kinds the last frame of play resolved, in loop order
    moves,           \* history: pointer-move events handled since the last frame
    pushed,          \* history: the objects the last frame of play pushed on objects
    toasts,          \* history: the addToast calls of the last frame of play
    retired,         \* history: the objects the last frame of play removed, as their
                     \*          indexes in the collection the frame found
    storage,         \* localStorage's item under STORAGE_KEY
    deleted,         \* history: the last call on the storage, where it was a
                     \*          deleteMonkey: [called, id, result, before]
    saved,           \* history: the last call on the storage, where it was a
                     \*          saveMonkey: [called, name, sheet, first, returned,
                     \*          monkey, before]
    currentTrackIndex,     \* audioService.currentTrackIndex
    menuAudio,             \* audioService.menuAudio: [exists, paused, currentTime]
    trackChangeListeners,  \* audioService.trackChangeListeners
    trackCall,       \* history: the last step of the audio service, where it was a
                     \*          playlist call: [op, index, played, notified]
    mode,            \* App's state mode
    generatedSprite, \* App's state generatedSprite (set by onSpriteGenerated)
    activeTab,       \* CharacterGenerator's state activeTab
    savedMonkeys,    \* CharacterGenerator's state savedMonkeys
    selectedMonkeyId,  \* CharacterGenerator's state selectedMonkeyId
    status,          \* CharacterGenerator's state status
    generatedImage,  \* CharacterGenerator's state generatedImage
    nameInput        \* CharacterGenerator's state monkeyName (the name input)

levelVars == <<gameState, gameStateRef, gameActive, level, levelRef, score,
               timeRemaining, countdown, sessionScores, ticks>>
playerVars == <<speed, playerX, posX, posY, velY, isAirborne, isInvincible,
                invTimers, jump>>
inputVars == <<moveDirection, prevDirection, isDragging, lastPointerX, dragDir, dragAcc,
               press>>
worldVars == <<segZ, objects, frames, pushed, retired, toasts>>
histVars == <<idle, resolved, moves>>
storeVars == <<storage, deleted, saved>>
audioVars == <<currentTrackIndex, menuAudio, trackChangeListeners, trackCall>>
screenVars == <<mode, generatedSprite, activeTab, savedMonkeys, selectedMonkeyId, status,
                generatedImage, nameInput>>
hostVars == <<isDemo, mounted, monkeyName, terrain, storeVars, audioVars, screenVars, screenVars>>
vars == <<hostVars, levelVars, playerVars, inputVars, worldVars, histVars>>

\* ------------------------------------------------------------------ helpers
Abs(v) == IF v < 0 THEN -v ELSE v
Max(a, b) == IF a >= b THEN a ELSE b
Min(a, b) == IF a <= b THEN a ELSE b
\* v * n / d in fixed point, truncated toward zero
Frac(v, n, d) == IF v >= 0 THEN (v * n) \div d ELSE -(((-v) * n) \div d)
Take(s, n) == IF Len(s) <= n THEN s ELSE SubSeq(s, 1, n)
RemoveAt(s, i) == SubSeq(s, 1, i - 1) \o SubSeq(s, i + 1, Len(s))

\* ------------------------------------------------------------------ terrain
\* The cosine over one turn divided in Len(CosTable) steps, times 1000.  An
\* angle is a number of steps; the terrain is sampled where its angles are
\* whole steps: z at multiples of SEGMENT_LENGTH / Turn (z * zFreq1 is z steps),
\* x at multiples of XStep (x * 0.1 is x steps).
CosTable ==
    <<1000, 924, 707, 383, 0, -383, -707, -924, -1000, -924, -707, -383, 0, 383, 707, 924>>
Turn == Len(CosTable)
Cos(a) == CosTable[(a % Turn) + 1]
Sin(a) == Cos(a - Turn \div 4)

\* the x of one step of x * 0.1: (2 pi / 16) / 0.1, times 1000
XStep == 3927

\* mutant: the detail term runs one and a half cycles per segment
DetailAngle_Detuned(x, z) == 2 * x + (3 * z) \div 2

\* the angle of the detail term: x * 0.2 + z * zFreq1 * 2.0
DetailAngle(x, z) == 2 * x + 2 * z

\* the bowl term: Math.pow(Math.abs(x) / 22, 2) * 1.5
Bowl(x) == ((((x * XStep) * (x * XStep)) \div 1000) * 15) \div (22 * 22 * 10)

\* getTerrainHeight(x, z), x and z in steps: base + detail + bowl - 2.5
getTerrainHeight(x, z) ==
    LET base == Frac(Frac(Sin(x) * Cos(z), 1, 1000), 2, 1)
        detail == Frac(Cos(DetailAngle(x, z)), 5, 10)
    IN  base + detail + Bowl(x) - 2500

\* ------------------------------------------------------------ monkey storage
\* The item under STORAGE_KEY is absent (getItem gives null), text that
\* JSON.parse rejects, or the JSON text of a list of monkeys.  A monkey is
\* [id, name, spriteSheet, createdAt, isPreset]; a name is its sequence of
\* characters; isPreset is TRUE where the field is present and true (absent,
\* it reads as undefined).
NoItem == [kind |-> "absent", monkeys |-> << >>]
Unparsable == [kind |-> "corrupt", monkeys |-> << >>]

\* JSON.stringify(list), as setItem stores it
Stringify(list) == [kind |-> "json", monkeys |-> list]

\* getSavedMonkeys(): [] if the item is absent or JSON.parse throws
getSavedMonkeys(item) ==
    IF item.kind = "absent" THEN << >>
    ELSE IF item.kind = "corrupt" THEN << >>
    ELSE item.monkeys

\* existing.find(m => m.id === id): the index of the first match, 0 if none
RECURSIVE FindFrom(_, _, _)
FindFrom(existing, id, i) ==
    IF i > Len(existing) THEN 0
    ELSE IF existing[i].id = id THEN i
    ELSE FindFrom(existing, id, i + 1)

Find(existing, id) == FindFrom(existing, id, 1)

\* mutant: only the monkey that find returned is dropped
Filter_FoundOnly(existing, id) == RemoveAt(existing, Find(existing, id))

\* existing.filter(m => m.id !== id)
RECURSIVE Filter(_, _)
Filter(existing, id) ==
    IF existing = << >> THEN << >>
    ELSE IF Head(existing).id # id
    THEN <<Head(existing)>> \o Filter(Tail(existing), id)
    ELSE Filter(Tail(existing), id)

\* name.trim(): the name without its leading and trailing blanks
RECURSIVE TrimStart(_)
TrimStart(name) ==
    IF name # << >> /\ Head(name) = " " THEN TrimStart(Tail(name)) ELSE name

RECURSIVE TrimEnd(_)
TrimEnd(name) ==
    IF name # << >> /\ name[Len(name)] = " "
    THEN TrimEnd(SubSeq(name, 1, Len(name) - 1)) ELSE name

\* mutant: the name is stored as typed
Trim_Kept(name) == name

Trim(name) == TrimEnd(TrimStart(name))

\* existing.sort((a, b) => a.createdAt - b.createdAt): stable, by insertion
RECURSIVE InsertByAge(_, _)
InsertByAge(sorted, m) ==
    IF sorted = << >> THEN <<m>>
    ELSE IF Head(sorted).createdAt <= m.createdAt
    THEN <<Head(sorted)>> \o InsertByAge(Tail(sorted), m)
    ELSE <<m>> \o sorted

RECURSIVE SortByAgeFrom(_, _, _)
SortByAgeFrom(sorted, list, i) ==
    IF i > Len(list) THEN sorted
    ELSE SortByAgeFrom(InsertByAge(sorted, list[i]), list, i + 1)

SortByAge(list) == SortByAgeFrom(<< >>, list, 1)

\* the fallback's test: if (sorted.length > 0)
Retry(sorted) == Len(sorted) > 0

NoMonkey ==
    [id |-> "", name |-> << >>, spriteSheet |-> "", createdAt |-> 0, isPreset |-> FALSE]

NoSave ==
    [called |-> FALSE, name |-> << >>, sheet |-> "", first |-> "ok", returned |-> FALSE,
     monkey |-> NoMonkey, before |-> NoItem]

\* saveMonkey(name, spriteSheet): id and now are what the call draws for the
\* id and reads from Date.now(); first and second are how localStorage.setItem
\* answers the write and the fallback's write: "ok", "quota" (it throws
\* QuotaExceededError) or "other" (it throws something else).  returned is
\* FALSE where saveMonkey throws.
saveMonkey(item, name, spriteSheet, id, now, first, second) ==
    LET newMonkey == [id |-> id, name |-> Trim(name), spriteSheet |-> spriteSheet,
                      createdAt |-> now, isPreset |-> FALSE]
        existing == getSavedMonkeys(item)
        updated == Append(existing, newMonkey)
        sorted == SortByAge(existing)
        trimmed == Tail(sorted)
    IN  IF first = "ok"
        THEN [returned |-> TRUE, monkey |-> newMonkey, item |-> Stringify(updated)]
        ELSE IF first = "quota" /\ Retry(sorted)
        THEN IF second = "ok"
             THEN [returned |-> TRUE, monkey |-> newMonkey,
                   item |-> Stringify(Append(trimmed, newMonkey))]
             ELSE [returned |-> FALSE, monkey |-> newMonkey, item |-> item]
        ELSE [returned |-> TRUE, monkey |-> newMonkey, item |-> item]

NoDelete == [called |-> FALSE, id |-> "", result |-> FALSE, before |-> NoItem]

\* deleteMonkey(id): what it returns and the item it leaves
deleteMonkey(item, id) ==
    LET existing == getSavedMonkeys(item)
        found == Find(existing, id)
    IN  IF found = 0 \/ existing[found].isPreset
        THEN [result |-> FALSE, item |-> item]
        ELSE [result |-> TRUE, item |-> Stringify(Filter(existing, id))]

\* ------------------------------------------------------ the audio service
\* the playlist's length and previousTrack's threshold in seconds
PLAYLIST_LENGTH == 4
RESTART_AFTER == 3

\* the seconds a track has played are counted up to MaxPlayed
MaxPlayed == 5

\* the callbacks handed to onTrackChange
Callbacks == {"cb-1", "cb-2"}

\* JavaScript's a % n for n > 0: the result has the sign of a
Rem(a, n) == IF a >= 0 THEN a % n ELSE -((-a) % n)

\* menuAudio = null
NoAudio == [exists |-> FALSE, paused |-> TRUE, currentTime |-> 0]

\* trackChangeListeners.forEach(cb => cb()): the calls each callback gets
notifyTrackChange(listeners) == [cb \in Callbacks |-> IF cb \in listeners THEN 1 ELSE 0]
NoneNotified == [cb \in Callbacks |-> 0]

\* loadTrack(index, forcePlay): the index is normalised, a new Audio element
\* replaces the old one and plays if the old one did (or none was there, or
\* forcePlay), unless the browser blocks the play() call
loadTrack(audio, index, forcePlay, blocked) ==
    LET wasPlaying == forcePlay \/ (IF audio.exists THEN ~audio.paused ELSE TRUE)
    IN  [index |-> Rem(Rem(index, PLAYLIST_LENGTH) + PLAYLIST_LENGTH, PLAYLIST_LENGTH),
         audio |-> [exists |-> TRUE, paused |-> ~(wasPlaying /\ ~blocked),
                    currentTime |-> 0]]

\* mutant: previousTrack never restarts the track
Restarts_Never(audio) == FALSE

\* previousTrack's test: this.menuAudio && this.menuAudio.currentTime > 3
Restarts(audio) == audio.exists /\ audio.currentTime > RESTART_AFTER

\* no playlist call yet
NoTrackCall == [op |-> "none", index |-> 0, played |-> 0, notified |-> NoneNotified]

\* the service as the module creates it
InitAudio ==
    /\ currentTrackIndex = 0
    /\ menuAudio = NoAudio
    /\ trackChangeListeners = {}
    /\ trackCall = NoTrackCall

\* ------------------------------------------------- the character screen
\* null, for an id or an image
Null == "null"

\* savedMonkeys.find(m => m.id === selectedMonkeyId): the index, 0 if none
SelectedMonkey(monkeys, id) == Find(monkeys, id)

\* hasCharacterReady: the Play button is offered
hasCharacterReady(tab, id, st, image, name) ==
    \/ tab = "CHOOSE" /\ id # Null
    \/ tab = "CREATE" /\ st = "SUCCESS" /\ image # Null /\ Trim(name) # << >>

\* App in mode CREATE with the character screen just mounted: the mount
\* effect has read the saved monkeys
InitScreen ==
    /\ mode = "CREATE"
    /\ generatedSprite = Null
    /\ activeTab = "CHOOSE"
    /\ savedMonkeys = getSavedMonkeys(storage)
    /\ selectedMonkeyId = Null
    /\ status = "IDLE"
    /\ generatedImage = Null
    /\ nameInput = << >>

\* ------------------------------------------------------------------ objects
\* what one spawnObject call draws: the kind (from rand) and xPos
SpawnChoice(type, subtype, x) == [type |-> type, subtype |-> subtype, x |-> x]
NoSpawn == SpawnChoice("none", "none", 0)

\* createTree / createRock / createRamp / createCollectible: userData.hit = false
NewObject(type, subtype, x, lvl) ==
    [type |-> type, subtype |-> subtype, x |-> x, zone |-> "ahead",
     hit |-> FALSE, visible |-> TRUE, shrunk |-> FALSE,
     born |-> lvl,      \* history: levelRef when it was spawned
     res |-> 0,         \* history: how many times a collision with it was resolved
     over |-> 0]        \* history: frames it spent in the hitbox after it was hit,
                        \*          counted up to MaxOver

\* the objects one spawnObject call pushes: the drawn one and the barrier trees
SpawnSize == 1 + 2 * BARRIER_ROWS

\* mutant: spawnObject without the barrier trees
BarrierTrees_None(lvl) == << >>

\* the six barrier trees of one spawnObject call, in push order
BarrierTrees(lvl) ==
    [k \in 1..(2 * BARRIER_ROWS) |->
        LET i == (k - 1) \div 2
            x == BARRIER_OFFSET + i * BARRIER_SPACING
        IN  NewObject("obstacle", "tree", IF k % 2 = 1 THEN -x ELSE x, lvl)]

\* spawnObject(zPos): the drawn object, then the barrier trees; zPos is -80
\* or -20 - 15 i, which is "ahead".  The model keeps the first cap objects of
\* the collection.
SpawnObject(objs, c, lvl, cap) ==
    Take(objs \o <<NewObject(c.type, c.subtype, c.x, lvl)>> \o BarrierTrees(lvl), cap)

InitialCount(targetLevel) ==
    IF targetLevel = 1 THEN INITIAL_COUNT_FIRST ELSE INITIAL_COUNT_LATER

RECURSIVE SpawnRows(_, _, _, _, _)
SpawnRows(objs, n, c, lvl, cap) ==
    IF n = 0 THEN objs
    ELSE SpawnRows(SpawnObject(objs, c, lvl, cap), n - 1, c, lvl, cap)

\* ---------------------------------------------------------------- startGame
LevelSpeed(lvl) == WORLD_SPEED_BASE + lvl * LEVEL_SPEED_STEP

\* no key press yet.  turn is the parity of the number of accepted presses,
\* sounds the number of audioService.playSkiingSound() calls of the last one
NoPress == [turn |-> 0, sounds |-> 0]

NoJump == [n |-> 0, flat |-> FALSE, from |-> 0, groundY |-> 0]

\* mutant: the live objects are kept
ClearObjects_Keep(objs) == objs

\* objectsRef.current.forEach(remove); objectsRef.current = []
ClearObjects(objs) == << >>

\* the values startGame(targetLevel) assigns; objs is the collection it finds
\* and c is what its spawnObject calls draw
StartGame(objs, targetLevel, c, cap) ==
    [gameStateRef |-> "PLAYING",
     levelRef |-> targetLevel,
     speed |-> LevelSpeed(targetLevel),
     gameActive |-> TRUE,
     playerX |-> 0,
     moveDirection |-> 0,
     velY |-> 0,
     isAirborne |-> FALSE,
     gameState |-> "PLAYING",
     score |-> 0,
     timeRemaining |-> TIME_BUDGET,
     objects |-> SpawnRows(ClearObjects(objs), InitialCount(targetLevel), c, targetLevel, cap)]

\* the component after mount: the refs' initial values, the ground system,
\* startGame(1), and the timer effect's first run
InitGame(demo, env) ==
    \E c \in env.spawns :
      LET g == StartGame(<< >>, 1, c, env.objects) IN
        /\ isDemo = demo
        /\ mounted = TRUE
        /\ monkeyName \in env.names
        /\ terrain = [x |-> 0, z |-> 0, height |-> getTerrainHeight(0, 0)]
        /\ gameState = g.gameState
        /\ gameStateRef = g.gameStateRef
        /\ gameActive = g.gameActive
        /\ level = 1
        /\ levelRef = g.levelRef
        /\ score = g.score
        /\ timeRemaining = g.timeRemaining
        /\ countdown = IF demo THEN << >> ELSE <<INTERVAL_SECONDS>>
        /\ sessionScores = << >>
        /\ speed = g.speed
        /\ playerX = g.playerX
        /\ posX = 0
        /\ posY = 0
        /\ velY = g.velY
        /\ isAirborne = g.isAirborne
        /\ isInvincible = FALSE
        /\ invTimers = << >>
        /\ moveDirection = g.moveDirection
        /\ prevDirection = 0
        /\ isDragging = FALSE
        /\ lastPointerX = 0
        /\ dragDir = 0
        /\ dragAcc = 0
        /\ press = NoPress
        /\ segZ = [i \in 1..SEGMENT_COUNT |-> -((i - 1) * SEGMENT_LENGTH)]
        /\ objects = g.objects
        /\ frames = 0
        /\ ticks = 0
        /\ jump = NoJump
        /\ idle = 0
        /\ resolved = << >>
        /\ moves = 0
        /\ pushed = 0
        /\ toasts = 0
        /\ retired = {}

\* the component after mount in a browser that holds no saved monkeys
InitWith(demo, env) ==
    /\ InitGame(demo, env)
    /\ storage = NoItem
    /\ deleted = NoDelete
    /\ saved = NoSave
    /\ InitAudio
    /\ InitScreen

\* -------------------------------------------------------- animate: the parts
\* mutant: a segment that wraps lands on the one behind it
WrapSegment_Short(z) ==
    IF z > SEGMENT_LENGTH THEN z - SEGMENT_LENGTH * (SEGMENT_COUNT - 1) ELSE z

\* ground scrolling, one segment: advance by speed, wrap behind the last one
WrapSegment(z) ==
    IF z > SEGMENT_LENGTH THEN z - SEGMENT_LENGTH * SEGMENT_COUNT ELSE z

ScrollGround(segs, sp) == [i \in DOMAIN segs |-> WrapSegment(segs[i] + sp)]

\* mutant: only a segment ahead of the player counts
IsActiveSegment_Ahead(z) == z > 0 /\ z < SEGMENT_LENGTH

\* the range test of groundSegmentsRef.current.find(...)
IsActiveSegment(z) ==
    z > -(SEGMENT_LENGTH \div 2) /\ z < (SEGMENT_LENGTH * 3) \div 2

HasActiveSegment(segs) == \E i \in DOMAIN segs : IsActiveSegment(segs[i])

\* what the frame reads of the terrain: the sample v under an active segment,
\* the flat fallback 0 if (activeSeg) finds none
Sampled(segs, v) == IF HasActiveSegment(segs) THEN v ELSE 0

ClampLateral(x) == Max(-PLAY_WIDTH, Min(PLAY_WIDTH, x))

\* playerXRef += inputForce + gravityForceX, then the clamp
Steer(px, inputForce, slopeX) ==
    ClampLateral(px + inputForce + (-Frac(slopeX, 4, 10)))

\* player.position.x += (playerXRef - player.position.x) * 0.2
LerpX(x, target) == x + Frac(target - x, 2, 10)

GroundY(terrainHeight) == terrainHeight - GROUND_MESH_Y - GROUND_SINK

\* mutant: the player lands one unit above the ground
Landed_Early(y, groundY) == y <= groundY + 1000

\* the landing test of the jump physics
Landed(y, groundY) == y <= groundY

\* jump physics: airborne (gravity, landing) or on the ground (follow terrain)
Vertical(y, v, air, groundY) ==
    IF air
    THEN LET v1 == v - GRAVITY
             y1 == y + v1
         IN  IF Landed(y1, groundY)
             THEN [y |-> groundY, v |-> 0, air |-> FALSE]
             ELSE [y |-> y1, v |-> v1, air |-> TRUE]
    ELSE LET y1 == y + Frac(groundY - y, 4, 10)
         IN  [y |-> IF y1 < groundY THEN groundY ELSE y1, v |-> v, air |-> FALSE]

\* mutant: speedRef relaxes toward the slope term alone and is not floored
RelaxSpeed_Stalling(sp, lvl, slopeZ) ==
    sp + Frac(Frac(slopeZ, 9, 100) - sp, 5, 100)

\* speedRef relaxes toward targetSpeed and is floored
RelaxSpeed(sp, lvl, slopeZ) ==
    LET targetSpeed == WORLD_SPEED_BASE + lvl * LEVEL_SPEED_STEP + Frac(slopeZ, 9, 100)
        sp1 == sp + Frac(targetSpeed - sp, 5, 100)
    IN  IF sp1 < SPEED_FLOOR THEN SPEED_FLOOR ELSE sp1

\* obj.position.z += speedRef.current, as the interval z lies in
NextZone(zone) ==
    CASE zone = "ahead" -> "near"
      [] zone = "near" -> "passed"
      [] OTHER -> "gone"

\* mutant: the pizza penalty without the floor
PizzaScore_NoFloor(s) == s - PIZZA_PENALTY

\* setScore(s => Math.max(0, s - 50))
PizzaScore(s) == Max(0, s - PIZZA_PENALTY)

\* mutant: the test without the hit flag
Collides_IgnoringHit(o, zone, px) == zone = "near" /\ Abs(o.x - px) < HITBOX

\* the collision test: unresolved, dz < 2.0 and dx < 2.0
Collides(o, zone, px) == ~o.hit /\ zone = "near" /\ Abs(o.x - px) < HITBOX

\* mutant: every collectible is worth a banana
CollectValue_Flat(subtype) == BANANA_POINTS

\* let val = 100; spaghetti 1000; mango 500
CollectValue(subtype) ==
    CASE subtype = "spaghetti" -> SPAGHETTI_POINTS
      [] subtype = "mango" -> MANGO_POINTS
      [] OTHER -> BANANA_POINTS

\* mutant: an obstacle stops the player even when invincible
Crashes_Always(inv) == TRUE

\* the obstacle branch's test: if (!isInvincibleRef.current)
Crashes(inv) == ~inv

\* mutant: a ramp launches the player in the air as well
RampLaunches_Always(air) == TRUE

\* the ramp branch's test: if (!isAirborneRef.current)
RampLaunches(air) == ~air

\* mutant: the demo scores like a game
Rewards_Always(demo) == TRUE

\* the test around setScore and addToast: if (!isDemoRef.current)
Rewards(demo) == ~demo

\* the body of "if (dx < 2.0)": hit is set, then the branch of the object's type.
\* st carries what the loop mutates; o is the object with its new zone.
Resolve(o, st, demo) ==
    LET o1 == [o EXCEPT !.hit = TRUE, !.res = @ + 1]
        st0 == [st EXCEPT !.log = Append(@, o.subtype)]
    IN
    CASE o.type = "collectible" /\ o.subtype = "pizza" ->
           [st0 EXCEPT !.obj = [o1 EXCEPT !.visible = FALSE],
                      !.score = IF Rewards(demo) THEN PizzaScore(@) ELSE @,
                      !.toasts = IF Rewards(demo) THEN @ + 1 ELSE @]
      [] o.type = "collectible" /\ o.subtype # "pizza" ->
           [st0 EXCEPT !.obj = [o1 EXCEPT !.visible = FALSE],
                      !.inv = IF o.subtype = "mango" THEN TRUE ELSE @,
                      !.timers = IF o.subtype = "mango"
                                 THEN Append(@, INVINCIBLE_SECONDS) ELSE @,
                      !.score = IF Rewards(demo) THEN @ + CollectValue(o.subtype) ELSE @,
                      !.toasts = IF Rewards(demo) THEN @ + 1 ELSE @]
      [] o.type = "obstacle" ->
           IF Crashes(st.inv)
           THEN [st0 EXCEPT !.obj = o1, !.speed = CRASH_SPEED]
           ELSE [st0 EXCEPT !.obj = [o1 EXCEPT !.shrunk = TRUE]]
      [] o.type = "ramp" ->
           IF RampLaunches(st.air)
           THEN [st0 EXCEPT !.obj = o1, !.air = TRUE, !.velY = JUMP_VELOCITY,
                           !.score = IF Rewards(demo) THEN @ + RAMP_POINTS ELSE @,
                           !.toasts = IF Rewards(demo) THEN @ + 1 ELSE @,
                           !.speed = @ + RAMP_SPEED_BOOST]
           ELSE [st0 EXCEPT !.obj = o1]
      [] OTHER -> [st0 EXCEPT !.obj = o1]

\* mutant: no object is removed
Retires_Never(zone) == FALSE

\* the removal test: if (obj.position.z > 20)
Retires(zone) == zone = "gone"

\* for (i = length - 1; i >= 0; i--): move, collide, retire.  adv is the set of
\* indexes whose z crosses a threshold in this frame.
RECURSIVE ObjectLoop(_, _, _, _, _)
ObjectLoop(i, adv, px, demo, st) ==
    IF i = 0 THEN st
    ELSE LET o == st.objs[i]
             zone == IF i \in adv THEN NextZone(o.zone) ELSE o.zone
             moved == [o EXCEPT !.zone = zone,
                                !.over = IF o.hit /\ zone = "near" /\ Abs(o.x - px) < HITBOX
                                         THEN Min(@ + 1, MaxOver) ELSE @]
             st1 == IF Collides(o, zone, px)
                    THEN Resolve(moved, [st EXCEPT !.obj = moved], demo)
                    ELSE [st EXCEPT !.obj = moved]
             objs1 == IF Retires(zone)
                      THEN RemoveAt(st1.objs, i)
                      ELSE [st1.objs EXCEPT ![i] = st1.obj]
         IN  ObjectLoop(i - 1, adv, px, demo,
                        [st1 EXCEPT !.objs = objs1,
                                    !.gone = IF Retires(zone) THEN @ \cup {i} ELSE @])

NoObject == NewObject("none", "none", 0, 0)

\* the history of the jump in progress after a frame: gY is the frame's
\* groundY, vert the result of its jump physics, air the flag after its loop
JumpHistory(gY, vert, air) ==
    IF ~vert.air /\ air
    THEN [n |-> 0, flat |-> vert.y = gY, from |-> gY, groundY |-> gY]
    ELSE IF isAirborne
    THEN [jump EXCEPT !.n = @ + 1, !.flat = @ /\ gY = jump.from, !.groundY = gY]
    ELSE jump

\* the body of "if (gameActiveRef.current)": ground scrolling, then the game
\* logic, as the values the frame leaves behind
GameLogic(h, sx, sz, df, sp, adv, cap) ==
    LET segs1 == ScrollGround(segZ, speed)
        terrainHeight == Sampled(segs1, h)
        slopeX == Sampled(segs1, sx)
        slopeZ == Sampled(segs1, sz)
        inputForce == IF isDemo THEN df ELSE moveDirection * KEY_FORCE
        px1 == Steer(playerX, inputForce, slopeX)
        x1 == LerpX(posX, px1)
        gY == GroundY(terrainHeight)
        vert == Vertical(posY, velY, isAirborne, gY)
        sp1 == RelaxSpeed(speed, levelRef, slopeZ)
        objs1 == IF sp = NoSpawn THEN objects ELSE SpawnObject(objects, sp, levelRef, cap)
        out == ObjectLoop(Len(objs1), adv \cap (1..Len(objects)), x1, isDemo,
                 [objs |-> objs1, obj |-> NoObject, score |-> score,
                  speed |-> sp1, air |-> vert.air, velY |-> vert.v,
                  inv |-> isInvincible, timers |-> invTimers, log |-> << >>,
                  gone |-> {}, toasts |-> 0])
    IN  [segZ |-> segs1, playerX |-> px1, posX |-> x1, posY |-> vert.y,
         velY |-> out.velY, isAirborne |-> out.air, speed |-> out.speed,
         score |-> out.score, isInvincible |-> out.inv, invTimers |-> out.timers,
         objects |-> out.objs, jump |-> JumpHistory(gY, vert, out.air),
         resolved |-> out.log, pushed |-> Len(objs1) - Len(objects),
         retired |-> out.gone, toasts |-> out.toasts]

\* --------------------------------------------------------------- the actions
\* animate: one requestAnimationFrame callback.  env bounds the frame's inputs:
\* the terrain sample (h, sx, sz), the demo steering force df, what the spawn
\* check draws (sp), and the objects that cross a threshold (adv).  env.frames
\* bounds the frames of play per level, env.idle the frames after the level was
\* completed, env.objects the live collection.
\* mutant: the gate is always open
GameplayRuns_Always == TRUE

\* the gate of ground scrolling and of the game logic: gameActiveRef.current
GameplayRuns == gameActive

\* one frame callback; crossings is the sets of objects that may cross a
\* threshold together in one frame; endless lifts the bound on the frames of
\* play, which are then counted up to env.frames only
AnimateFrames(env, crossings, endless) ==
    \E h \in env.heights, sx \in env.slopesX, sz \in env.slopesZ,
       df \in env.demoForces, sp \in env.spawns \cup {NoSpawn}, adv \in crossings :
      /\ mounted
      /\ GameplayRuns => (endless \/ frames < env.frames)
      /\ gameState = "LEVEL_COMPLETE" => idle < env.idle
      /\ idle' = IF gameState = "LEVEL_COMPLETE" THEN idle + 1 ELSE idle
      /\ moves' = 0
      /\ UNCHANGED <<hostVars, gameState, gameStateRef, gameActive, level, levelRef,
                     timeRemaining, countdown, sessionScores, ticks, inputVars>>
      /\ IF ~GameplayRuns
         THEN UNCHANGED <<score, playerVars, worldVars, resolved>>
         ELSE \E r \in {GameLogic(h, sx, sz, df, sp, adv, env.objects)} :
               /\ segZ' = r.segZ
               /\ playerX' = r.playerX
               /\ posX' = r.posX
               /\ posY' = r.posY
               /\ velY' = r.velY
               /\ isAirborne' = r.isAirborne
               /\ speed' = r.speed
               /\ score' = r.score
               /\ isInvincible' = r.isInvincible
               /\ invTimers' = r.invTimers
               /\ objects' = r.objects
               /\ frames' = IF frames < env.frames THEN frames + 1 ELSE frames
               /\ jump' = r.jump
               /\ resolved' = r.resolved
               /\ pushed' = r.pushed
               /\ retired' = r.retired
               /\ toasts' = r.toasts

\* one frame callback, of at most env.frames frames of play per level
AnimateWith(env, crossings) == AnimateFrames(env, crossings, FALSE)

\* one frame callback, any of the live objects crossing a threshold
Animate(env) == AnimateWith(env, SUBSET (1..env.objects))

\* one second of wall-clock time passes; no timer is overdue, and the render
\* that follows a state change has been committed
AdvanceTime(env) ==
    /\ \A i \in DOMAIN countdown : countdown[i] > 0
    /\ \A i \in DOMAIN invTimers : invTimers[i] > 0
    /\ gameStateRef = gameState
    /\ countdown # << >> \/ invTimers # << >>
    /\ countdown # << >> => ticks < env.seconds
    /\ countdown' = [i \in DOMAIN countdown |-> countdown[i] - 1]
    /\ invTimers' = [i \in DOMAIN invTimers |-> invTimers[i] - 1]
    /\ UNCHANGED <<hostVars, gameState, gameStateRef, gameActive, level, levelRef, score,
                   timeRemaining, sessionScores, ticks, speed, playerX, posX, posY,
                   velY, isAirborne, isInvincible, jump, inputVars, worldVars, histVars>>

\* mutant: the record carries scoreRef.current, which stays 0
ScoreEntry_FromRef(name, sc, lvl) == [monkeyName |-> name, score |-> 0, level |-> lvl]

\* the record addSessionScore pushes (its id, sprite and timestamp left out)
ScoreEntry(name, sc, lvl) == [monkeyName |-> name, score |-> sc, level |-> lvl]

\* mutant: the countdown loses two seconds per callback
CountDown_ByTwo(prev) == IF prev <= 1 THEN 0 ELSE prev - 2

\* setTimeRemaining's updater: the value after one countdown callback
CountDown(prev) == IF prev <= 1 THEN 0 ELSE prev - 1

\* mutant: the level is over one second early
LevelOver_Early(prev) == prev <= 2

\* the level is over when the updater sees prev <= 1
LevelOver(prev) == prev <= 1

\* the setInterval callback of the timer effect
CountdownTick ==
    /\ mounted
    /\ countdown = <<0>>
    /\ countdown' = <<INTERVAL_SECONDS>>
    /\ timeRemaining' = CountDown(timeRemaining)
    /\ ticks' = ticks + 1
    /\ IF LevelOver(timeRemaining)
       THEN /\ gameState' = "LEVEL_COMPLETE"
            /\ gameActive' = FALSE
            /\ sessionScores' = Append(sessionScores,
                                       ScoreEntry(monkeyName, score, levelRef))
       ELSE UNCHANGED <<gameState, gameActive, sessionScores>>
    /\ UNCHANGED <<hostVars, gameStateRef, level, levelRef, score, playerVars, inputVars,
                   worldVars, histVars>>

\* the effects that run after the render of a changed gameState: the ref is
\* synced, the timer effect is cleaned up (clearInterval) and run again
SyncEffects ==
    /\ mounted
    /\ gameStateRef # gameState
    /\ gameStateRef' = gameState
    /\ countdown' = IF gameState = "PLAYING" /\ ~isDemo
                    THEN <<INTERVAL_SECONDS>> ELSE << >>
    /\ UNCHANGED <<hostVars, gameState, gameActive, level, levelRef, score, timeRemaining,
                   sessionScores, ticks, playerVars, inputVars, worldVars, histVars>>

\* the callback of the mango's setTimeout
InvincibilityExpires ==
    /\ invTimers # << >>
    /\ Head(invTimers) = 0
    /\ invTimers' = Tail(invTimers)
    /\ isInvincible' = FALSE
    /\ UNCHANGED <<hostVars, levelVars, speed, playerX, posX, posY, velY, isAirborne,
                   jump, inputVars, worldVars, histVars>>

\* the "Start Level" button of the level-complete overlay
AdvanceLevel(env) ==
    \E c \in env.spawns :
      LET nextLevel == level + 1
          g == StartGame(objects, nextLevel, c, env.objects)
      IN  /\ mounted
          /\ gameState = "LEVEL_COMPLETE"
          /\ gameStateRef = "LEVEL_COMPLETE"
          /\ ~isDemo
          /\ level < MaxLevel
          /\ level' = nextLevel
          /\ gameStateRef' = g.gameStateRef
          /\ levelRef' = g.levelRef
          /\ speed' = g.speed
          /\ gameActive' = g.gameActive
          /\ playerX' = g.playerX
          /\ moveDirection' = g.moveDirection
          /\ velY' = g.velY
          /\ isAirborne' = g.isAirborne
          /\ gameState' = g.gameState
          /\ score' = g.score
          /\ timeRemaining' = g.timeRemaining
          /\ objects' = g.objects
          /\ countdown' = <<INTERVAL_SECONDS>>
          /\ frames' = 0
          /\ ticks' = 0
          /\ jump' = NoJump
          /\ idle' = 0
          /\ resolved' = << >>
          /\ moves' = 0
          /\ pushed' = 0
          /\ retired' = {}
          /\ toasts' = 0
          /\ UNCHANGED <<hostVars, sessionScores, posX, posY, isInvincible, invTimers,
                         prevDirection, isDragging, lastPointerX, dragDir, dragAcc,
                         press, segZ>>

\* unmount: the cleanups of the effects run.  cancelAnimationFrame and
\* clearInterval cancel the frame callback and the countdown; the listeners go
\* with the component; a setTimeout that is pending stays pending.
Unmount ==
    /\ mounted
    /\ mounted' = FALSE
    /\ countdown' = << >>
    /\ UNCHANGED <<isDemo, monkeyName, terrain, storeVars, audioVars, screenVars, gameState, gameStateRef, gameActive, level,
                   levelRef, score, timeRemaining, sessionScores, ticks, playerVars, inputVars,
                   worldVars, histVars>>

\* one call getTerrainHeight(x, z), as the ground mesh, the spawner and the
\* frame make them
SampleTerrain(env) ==
    \E x \in env.terrainXs, z \in env.terrainZs :
      /\ terrain' = [x |-> x, z |-> z, height |-> getTerrainHeight(x, z)]
      /\ UNCHANGED <<isDemo, mounted, monkeyName, storeVars, audioVars, screenVars, levelVars,
                     playerVars, inputVars, worldVars, histVars>>

\* the ground scrolling of one frame of play at a speed out of env.speeds
ScrollBy(env) ==
    \E sp \in env.speeds :
      /\ mounted /\ GameplayRuns
      /\ segZ' = ScrollGround(segZ, sp)
      /\ UNCHANGED <<hostVars, levelVars, playerVars, inputVars, objects, frames,
                     pushed, retired, toasts, histVars>>

\* a call saveMonkey(name, spriteSheet), as the character screen's save
\* button makes it; the id the call draws is not one of a saved monkey
SaveMonkey(env) ==
    \E name \in env.rawNames, sheet \in env.sheets, id \in env.ids, now \in env.times,
       first \in env.writes, second \in env.writes :
      LET existing == getSavedMonkeys(storage)
          r == saveMonkey(storage, name, sheet, id, now, first, second)
      IN  /\ Len(existing) < env.monkeys
          /\ \A i \in DOMAIN existing : existing[i].id # id
          /\ storage' = r.item
          /\ saved' = [called |-> TRUE, name |-> name, sheet |-> sheet, first |-> first,
                       returned |-> r.returned, monkey |-> r.monkey, before |-> storage]
          /\ deleted' = NoDelete
          /\ UNCHANGED <<isDemo, mounted, monkeyName, terrain, audioVars, screenVars, levelVars,
                         playerVars, inputVars, worldVars, histVars>>

\* a call deleteMonkey(id), as the character screen's delete button makes it
DeleteMonkey(env) ==
    \E id \in env.ids :
      LET r == deleteMonkey(storage, id)
      IN  /\ storage' = r.item
          /\ deleted' = [called |-> TRUE, id |-> id, result |-> r.result,
                         before |-> storage]
          /\ saved' = NoSave
          /\ UNCHANGED <<isDemo, mounted, monkeyName, terrain, audioVars, screenVars, levelVars,
                         playerVars, inputVars, worldVars, histVars>>

\* a call startMenuMusic(): the first of the session draws the track
StartMenuMusic ==
    \E random \in 0..(PLAYLIST_LENGTH - 1), blocked \in BOOLEAN :
      LET index == IF ~menuAudio.exists THEN random ELSE currentTrackIndex
          r == loadTrack(menuAudio, index, TRUE, blocked)
      IN  /\ currentTrackIndex' = r.index
          /\ menuAudio' = r.audio
          /\ trackCall' = [op |-> "startMenuMusic", index |-> index,
                           played |-> menuAudio.currentTime,
                           notified |-> notifyTrackChange(trackChangeListeners)]
          /\ UNCHANGED <<isDemo, mounted, monkeyName, terrain, storeVars, screenVars,
                         trackChangeListeners, levelVars, playerVars, inputVars,
                         worldVars, histVars>>

\* a call nextTrack(), by the player's button or by the track's "ended" event
NextTrack ==
    \E blocked \in BOOLEAN :
      LET nextIndex == Rem(currentTrackIndex + 1, PLAYLIST_LENGTH)
          r == loadTrack(menuAudio, nextIndex, FALSE, blocked)
      IN  /\ currentTrackIndex' = r.index
          /\ menuAudio' = r.audio
          /\ trackCall' = [op |-> "nextTrack", index |-> currentTrackIndex,
                           played |-> menuAudio.currentTime,
                           notified |-> notifyTrackChange(trackChangeListeners)]
          /\ UNCHANGED <<isDemo, mounted, monkeyName, terrain, storeVars, screenVars,
                         trackChangeListeners, levelVars, playerVars, inputVars,
                         worldVars, histVars>>

\* a call previousTrack()
PreviousTrack ==
    \E blocked \in BOOLEAN :
      LET prevIndex == Rem(currentTrackIndex - 1 + PLAYLIST_LENGTH, PLAYLIST_LENGTH)
          r == loadTrack(menuAudio, prevIndex, FALSE, blocked)
      IN  /\ IF Restarts(menuAudio)
             THEN /\ menuAudio' = [menuAudio EXCEPT !.currentTime = 0]
                  /\ UNCHANGED currentTrackIndex
             ELSE /\ currentTrackIndex' = r.index
                  /\ menuAudio' = r.audio
          /\ trackCall' = [op |-> "previousTrack", index |-> currentTrackIndex,
                           played |-> menuAudio.currentTime,
                           notified |-> notifyTrackChange(trackChangeListeners)]
          /\ UNCHANGED <<isDemo, mounted, monkeyName, terrain, storeVars, screenVars,
                         trackChangeListeners, levelVars, playerVars, inputVars,
                         worldVars, histVars>>

\* the track plays for another second
TrackPlays ==
    /\ menuAudio.exists /\ ~menuAudio.paused
    /\ menuAudio.currentTime < MaxPlayed
    /\ menuAudio' = [menuAudio EXCEPT !.currentTime = @ + 1]
    /\ trackCall' = NoTrackCall
    /\ UNCHANGED <<isDemo, mounted, monkeyName, terrain, storeVars, screenVars,
                   currentTrackIndex,
                   trackChangeListeners, levelVars, playerVars, inputVars,
                   worldVars, histVars>>

\* resumeMenuMusic(): a paused track plays again
ResumeMenuMusic ==
    /\ menuAudio.exists /\ menuAudio.paused
    /\ menuAudio' = [menuAudio EXCEPT !.paused = FALSE]
    /\ trackCall' = NoTrackCall
    /\ UNCHANGED <<isDemo, mounted, monkeyName, terrain, storeVars, screenVars,
                   currentTrackIndex,
                   trackChangeListeners, levelVars, playerVars, inputVars,
                   worldVars, histVars>>

\* a call onTrackChange(callback)
OnTrackChange ==
    \E cb \in Callbacks :
      /\ trackChangeListeners' = trackChangeListeners \cup {cb}
      /\ trackCall' = NoTrackCall
      /\ UNCHANGED <<isDemo, mounted, monkeyName, terrain, storeVars, screenVars,
                   currentTrackIndex,
                     menuAudio, levelVars, playerVars, inputVars, worldVars, histVars>>

\* a call of the function onTrackChange(callback) returned
Unsubscribe ==
    \E cb \in Callbacks :
      /\ trackChangeListeners' = trackChangeListeners \ {cb}
      /\ trackCall' = NoTrackCall
      /\ UNCHANGED <<isDemo, mounted, monkeyName, terrain, storeVars, screenVars,
                   currentTrackIndex,
                     menuAudio, levelVars, playerVars, inputVars, worldVars, histVars>>

\* what the character screen's handlers leave alone
offScreen == <<isDemo, mounted, terrain, audioVars, levelVars, playerVars, inputVars,
               worldVars, histVars>>

\* the tab buttons: setActiveTab(tab)
SetActiveTab ==
    \E tab \in {"CHOOSE", "CREATE"} :
      /\ mode = "CREATE"
      /\ activeTab' = tab
      /\ UNCHANGED <<offScreen, monkeyName, storeVars, mode, generatedSprite, savedMonkeys,
                     selectedMonkeyId, status, generatedImage, nameInput>>

\* handleSelectMonkey(monkey), by a click on a monkey of the Choose tab
SelectMonkey ==
    \E i \in DOMAIN savedMonkeys :
      /\ mode = "CREATE" /\ activeTab = "CHOOSE"
      /\ selectedMonkeyId' = savedMonkeys[i].id
      /\ generatedSprite' = savedMonkeys[i].spriteSheet
      /\ monkeyName' = savedMonkeys[i].name
      /\ UNCHANGED <<offScreen, storeVars, mode, activeTab, savedMonkeys, status,
                     generatedImage, nameInput>>

\* handleDeleteMonkey(e, monkeyId), the confirm() answered with yes
ScreenDeletes ==
    \E i \in DOMAIN savedMonkeys :
      LET monkeyId == savedMonkeys[i].id
          r == deleteMonkey(storage, monkeyId)
      IN  /\ mode = "CREATE" /\ activeTab = "CHOOSE"
          /\ storage' = r.item
          /\ deleted' = [called |-> TRUE, id |-> monkeyId, result |-> r.result,
                         before |-> storage]
          /\ saved' = NoSave
          /\ selectedMonkeyId' = IF selectedMonkeyId = monkeyId THEN Null
                                 ELSE selectedMonkeyId
          /\ savedMonkeys' = getSavedMonkeys(r.item)
          /\ UNCHANGED <<offScreen, monkeyName, mode, generatedSprite, activeTab, status,
                         generatedImage, nameInput>>

\* handleGenerate up to its first await
Generate ==
    /\ mode = "CREATE" /\ activeTab = "CREATE"
    /\ status # "LOADING"
    /\ status' = "LOADING"
    /\ generatedImage' = Null
    /\ nameInput' = << >>
    /\ UNCHANGED <<offScreen, monkeyName, storeVars, mode, generatedSprite, activeTab,
                   savedMonkeys, selectedMonkeyId>>

\* handleGenerate after its awaits: the sprite has arrived, or the call failed
Generated(env) ==
    \E image \in env.sheets \cup {Null} :
      /\ mode = "CREATE"
      /\ status = "LOADING"
      /\ IF image # Null
         THEN /\ generatedImage' = image
              /\ generatedSprite' = image
              /\ status' = "SUCCESS"
         ELSE /\ status' = "ERROR"
              /\ UNCHANGED <<generatedImage, generatedSprite>>
      /\ UNCHANGED <<offScreen, monkeyName, storeVars, mode, activeTab, savedMonkeys,
                     selectedMonkeyId, nameInput>>

\* the name input's onChange: setMonkeyName(e.target.value)
TypeName(env) ==
    \E name \in env.rawNames :
      /\ mode = "CREATE" /\ activeTab = "CREATE"
      /\ status = "SUCCESS" /\ generatedImage # Null
      /\ nameInput' = name
      /\ UNCHANGED <<offScreen, monkeyName, storeVars, mode, generatedSprite, activeTab,
                     savedMonkeys, selectedMonkeyId, status, generatedImage>>

\* handlePlay, by the Play button: a new monkey is saved first; onPlayGame
Play(env) ==
    \E id \in env.ids, now \in env.times, first \in env.writes, second \in env.writes :
      LET r == saveMonkey(storage, nameInput, generatedImage, id, now, first, second)
          selected == SelectedMonkey(savedMonkeys, selectedMonkeyId)
      IN  /\ mode = "CREATE"
          /\ hasCharacterReady(activeTab, selectedMonkeyId, status, generatedImage,
                               nameInput)
          /\ \A i \in DOMAIN getSavedMonkeys(storage) :
                getSavedMonkeys(storage)[i].id # id
          /\ IF activeTab = "CREATE" /\ generatedImage # Null /\ Trim(nameInput) # << >>
             THEN /\ r.returned
                  /\ storage' = r.item
                  /\ saved' = [called |-> TRUE, name |-> nameInput,
                               sheet |-> generatedImage, first |-> first,
                               returned |-> r.returned, monkey |-> r.monkey,
                               before |-> storage]
                  /\ deleted' = NoDelete
                  /\ savedMonkeys' = getSavedMonkeys(r.item)
                  /\ selectedMonkeyId' = r.monkey.id
                  /\ monkeyName' = Trim(nameInput)
             ELSE /\ monkeyName' = IF activeTab = "CHOOSE" /\ selected # 0
                                   THEN savedMonkeys[selected].name ELSE monkeyName
                  /\ UNCHANGED <<storeVars, savedMonkeys, selectedMonkeyId>>
          /\ mode' = "GAME"
          /\ UNCHANGED <<offScreen, generatedSprite, activeTab, status, generatedImage,
                         nameInput>>

\* the game screen's Exit button: setMode('CREATE') mounts a new character
\* screen
ExitGame ==
    /\ mode = "GAME"
    /\ mode' = "CREATE"
    /\ activeTab' = "CHOOSE"
    /\ savedMonkeys' = getSavedMonkeys(storage)
    /\ selectedMonkeyId' = Null
    /\ status' = "IDLE"
    /\ generatedImage' = Null
    /\ nameInput' = << >>
    /\ UNCHANGED <<offScreen, monkeyName, storeVars, generatedSprite>>

\* the direction a key sets; any other key keeps the current one
NewDirection(key, current) ==
    CASE key \in {"ArrowLeft", "a"} -> -1
      [] key \in {"ArrowRight", "d"} -> 1
      [] key \in {"ArrowUp", "w"} -> 0
      [] OTHER -> current

\* handleKeyDown
KeyDown(env) ==
    \E key \in env.keys :
      /\ mounted
      /\ IF gameStateRef # "PLAYING"
         THEN UNCHANGED <<moveDirection, prevDirection, press>>
         ELSE LET newDirection == NewDirection(key, moveDirection)
              IN  /\ press' = [turn |-> 1 - press.turn,
                               sounds |-> IF newDirection # prevDirection
                                          THEN 1 ELSE 0]
                  /\ prevDirection' = newDirection
                  /\ moveDirection' = newDirection
      /\ UNCHANGED <<hostVars, levelVars, playerVars, isDragging, lastPointerX,
                     dragDir, dragAcc, worldVars, histVars>>

\* handlePointerDown (attached when not in demo mode)
PointerDown(env) ==
    \E clientX \in env.pointerXs :
      /\ mounted
      /\ ~isDemo
      /\ IF gameStateRef # "PLAYING"
         THEN UNCHANGED <<isDragging, lastPointerX>>
         ELSE /\ isDragging' = TRUE
              /\ lastPointerX' = clientX
      /\ UNCHANGED <<hostVars, levelVars, playerVars, moveDirection, prevDirection,
                     dragDir, dragAcc, press, worldVars, histVars>>

\* playerXRef.current += delta * 0.08 (delta in pixels)
DragTo(px, delta) == px + delta * POINTER_SENSITIVITY

\* handlePointerMove
PointerMove(env) ==
    \E clientX \in env.pointerXs :
      /\ mounted
      /\ ~isDemo
      /\ moves < env.moves
      /\ moves' = moves + 1
      /\ IF ~isDragging \/ gameStateRef # "PLAYING"
         THEN UNCHANGED <<playerX, lastPointerX, dragDir, dragAcc>>
         ELSE LET delta == clientX - lastPointerX
                  acc == dragAcc + delta
                  newDragDirection == IF delta > 0 THEN 1
                                      ELSE IF delta < 0 THEN -1 ELSE dragDir
              IN  /\ playerX' = DragTo(playerX, delta)
                  /\ lastPointerX' = clientX
                  /\ dragAcc' = IF newDragDirection # dragDir /\ Abs(acc) > DRAG_THRESHOLD
                                THEN 0 ELSE acc
                  /\ dragDir' = newDragDirection
      /\ UNCHANGED <<hostVars, levelVars, speed, posX, posY, velY, isAirborne,
                     isInvincible, invTimers, jump, moveDirection, prevDirection,
                     isDragging, press, worldVars, idle, resolved>>

\* handlePointerUp (also onPointerLeave)
PointerUp ==
    /\ mounted
    /\ ~isDemo
    /\ isDragging' = FALSE
    /\ dragAcc' = 0
    /\ UNCHANGED <<hostVars, levelVars, playerVars, moveDirection, prevDirection,
                   lastPointerX, dragDir, press, worldVars, histVars>>

\* ------------------------------------------------------------ specifications
\* what spawnObject can draw, one position per kind: trees outside the play
\* area, the ramp and the other kinds in the player's lane
Tree == SpawnChoice("obstacle", "tree", PLAY_WIDTH + 2000)
Rock == SpawnChoice("obstacle", "rock", 0)
Ramp == SpawnChoice("ramp", "ramp", 0)
Banana == SpawnChoice("collectible", "banana", 0)
Pizza == SpawnChoice("collectible", "pizza", 0)
Mango == SpawnChoice("collectible", "mango", 0)
Spaghetti == SpawnChoice("collectible", "spaghetti", 0)

\* Spec: the first PlaySeconds seconds of a level, played on flat terrain in
\* the lane x = 0 without steering: up to PlayFrames frames, the countdown
\* and the invincibility timers, with PlayObjects live objects
PlayFrames == 5
PlaySeconds == 6
PlayObjects == 1
IdleFrames == 2

EnvPlay ==
    [frames |-> PlayFrames, idle |-> IdleFrames, seconds |-> PlaySeconds,
     objects |-> PlayObjects,
     heights |-> {-2500}, slopesX |-> {0}, slopesZ |-> {0}, demoForces |-> {0},
     names |-> {"Unnamed Monkey"},
     spawns |-> {Rock, Ramp, Banana, Pizza, Mango, Spaghetti}]

Init == InitWith(FALSE, EnvPlay)

Next ==
    \/ Animate(EnvPlay)
    \/ AdvanceTime(EnvPlay)
    \/ CountdownTick
    \/ InvincibilityExpires

Spec == Init /\ [][Next]_vars

\* SpecLevel: whole levels, from the first frame to the advance button, the
\* countdown running its full TIME_BUDGET seconds: up to LevelFrames frames of
\* play per level with LevelObjects live objects, bananas and pizzas ahead
LevelFrames == 5
LevelObjects == 1

EnvLevel ==
    [frames |-> LevelFrames, idle |-> IdleFrames, seconds |-> TIME_BUDGET,
     objects |-> LevelObjects,
     heights |-> {-2500}, slopesX |-> {0}, slopesZ |-> {0}, demoForces |-> {0},
     names |-> {"Unnamed Monkey"},
     spawns |-> {Banana, Pizza}]

InitLevel == InitWith(FALSE, EnvLevel)

NextLevel ==
    \/ Animate(EnvLevel)
    \/ AdvanceTime(EnvLevel)
    \/ CountdownTick
    \/ SyncEffects
    \/ AdvanceLevel(EnvLevel)

SpecLevel == InitLevel /\ [][NextLevel]_vars

\* the browser runs a due timer callback and commits a pending render
SpecLevelFair ==
    /\ InitLevel
    /\ [][NextLevel]_vars
    /\ WF_vars(AdvanceTime(EnvLevel))
    /\ WF_vars(CountdownTick)
    /\ WF_vars(SyncEffects)

\* SpecInput: keys and pointer drags interleaved with frames, on flat terrain
\* with trees outside the play area: up to InputFrames frames and, between two
\* frames, up to InputMoves pointer-move events
InputFrames == 2
InputMoves == 2
InputObjects == 1

EnvInput ==
    [frames |-> InputFrames, idle |-> IdleFrames, seconds |-> 0,
     objects |-> InputObjects, moves |-> InputMoves,
     heights |-> {-2500}, slopesX |-> {0}, slopesZ |-> {0}, demoForces |-> {0},
     names |-> {"Unnamed Monkey"},
     spawns |-> {Tree},
     keys |-> {"ArrowLeft", "ArrowRight", "ArrowUp", "Escape"},
     pointerXs |-> {100, 500}]

InitInput == InitWith(FALSE, EnvInput)

NextInput ==
    \/ Animate(EnvInput)
    \/ KeyDown(EnvInput)
    \/ PointerDown(EnvInput)
    \/ PointerMove(EnvInput)
    \/ PointerUp

SpecInput == InitInput /\ [][NextInput]_vars

\* SpecGround: the ground scrolling under GroundFrames frames of play, long
\* enough for a segment to wrap; the slope along the track, and with it the
\* speed, varies over the first GroundBends frames; no objects
GroundFrames == 400
GroundBends == 6
GroundObjects == 0

\* the inputs of frame n
EnvGround(n) ==
    [frames |-> GroundFrames, idle |-> IdleFrames, seconds |-> 0,
     objects |-> GroundObjects,
     heights |-> {-2500}, slopesX |-> {0}, demoForces |-> {0},
     names |-> {"Unnamed Monkey"},
     slopesZ |-> IF n < GroundBends THEN {0, 1000} ELSE {0},
     spawns |-> {Tree}]

InitGround == InitWith(FALSE, EnvGround(0))

NextGround == Animate(EnvGround(frames))

SpecGround == InitGround /\ [][NextGround]_vars

\* SpecJump: JumpFrames frames of play with a ramp in the player's lane; the
\* terrain height under the player varies over the first JumpBends frames
\* and is constant afterwards
JumpFrames == 45
JumpBends == 6
JumpObjects == 1

\* the inputs of frame n
EnvJump(n) ==
    [frames |-> JumpFrames, idle |-> IdleFrames, seconds |-> 0,
     objects |-> JumpObjects,
     heights |-> IF n < JumpBends THEN {-3000, -2000} ELSE {-2000},
     slopesX |-> {0}, slopesZ |-> {0}, demoForces |-> {0},
     names |-> {"Unnamed Monkey"},
     spawns |-> {Ramp}]

InitJump == InitWith(FALSE, EnvJump(0))

NextJump == Animate(EnvJump(frames))

SpecJump == InitJump /\ [][NextJump]_vars

\* SpecHits: HitFrames frames of the game (GAME mode) or of the start
\* screen's demo (isDemo), with every kind of object in the player's lane and
\* HitObjects live objects; no timer runs
HitFrames == 5
HitObjects == 1

EnvHits ==
    [frames |-> HitFrames, idle |-> IdleFrames, seconds |-> 0,
     objects |-> HitObjects,
     heights |-> {-2500}, slopesX |-> {0}, slopesZ |-> {0}, demoForces |-> {0},
     names |-> {"Unnamed Monkey"},
     spawns |-> {Rock, Ramp, Banana, Pizza, Mango, Spaghetti}]

InitHits == InitWith(FALSE, EnvHits) \/ InitWith(TRUE, EnvHits)

NextHits == Animate(EnvHits)

SpecHits == InitHits /\ [][NextHits]_vars

\* SpecTeardown: the first seconds of a level with mangos and bananas ahead,
\* and the component unmounted at any moment
TeardownFrames == 2
TeardownSeconds == 6

EnvTeardown ==
    [frames |-> TeardownFrames, idle |-> IdleFrames, seconds |-> TeardownSeconds,
     objects |-> PlayObjects,
     heights |-> {-2500}, slopesX |-> {0}, slopesZ |-> {0}, demoForces |-> {0},
     names |-> {"Unnamed Monkey"},
     spawns |-> {Mango, Banana}]

InitTeardown == InitWith(FALSE, EnvTeardown)

NextTeardown ==
    \/ Animate(EnvTeardown)
    \/ AdvanceTime(EnvTeardown)
    \/ CountdownTick
    \/ InvincibilityExpires
    \/ Unmount

SpecTeardown == InitTeardown /\ [][NextTeardown]_vars

\* SpecBoard: whole levels as in SpecLevel, with BoardFrames frames of play
\* per level, under either of two monkey names, and the component unmounted
\* at any moment
BoardFrames == 1

EnvBoard ==
    [frames |-> BoardFrames, idle |-> IdleFrames, seconds |-> TIME_BUDGET,
     objects |-> LevelObjects,
     heights |-> {-2500}, slopesX |-> {0}, slopesZ |-> {0}, demoForces |-> {0},
     names |-> {"Unnamed Monkey", "Koko"},
     spawns |-> {Banana, Spaghetti}]

InitBoard == InitWith(FALSE, EnvBoard)

NextBoard ==
    \/ Animate(EnvBoard)
    \/ AdvanceTime(EnvBoard)
    \/ CountdownTick
    \/ SyncEffects
    \/ AdvanceLevel(EnvBoard)
    \/ Unmount

SpecBoard == InitBoard /\ [][NextBoard]_vars

\* SpecTerrain: the terrain sampled at the x within TerrainXSteps steps of the
\* centre line and at the z from one segment behind to TerrainSegments
\* segments ahead
TerrainXSteps == 6
TerrainSegments == 2

EnvTerrain ==
    [objects |-> 0, spawns |-> {Tree}, names |-> {"Unnamed Monkey"},
     terrainXs |-> (-TerrainXSteps)..TerrainXSteps,
     terrainZs |-> (-Turn)..(TerrainSegments * Turn)]

InitTerrain == InitWith(FALSE, EnvTerrain)

NextTerrain == SampleTerrain(EnvTerrain)

SpecTerrain == InitTerrain /\ [][NextTerrain]_vars

\* SpecSpeed: whole levels on sloping ground with rocks and ramps ahead: up to
\* SpeedFrames frames of play per level, the slope along z at either extreme
\* of what the terrain's finite difference yields (|slopeZ| < 0.4)
SpeedFrames == 3
SpeedObjects == 1

EnvSpeed ==
    [frames |-> SpeedFrames, idle |-> IdleFrames, seconds |-> TIME_BUDGET,
     objects |-> SpeedObjects,
     heights |-> {-2500}, slopesX |-> {0}, slopesZ |-> {-400, 400},
     demoForces |-> {0},
     names |-> {"Unnamed Monkey"},
     spawns |-> {Rock, Ramp}]

InitSpeed == InitWith(FALSE, EnvSpeed)

NextSpeed ==
    \/ Animate(EnvSpeed)
    \/ AdvanceTime(EnvSpeed)
    \/ CountdownTick
    \/ SyncEffects
    \/ AdvanceLevel(EnvSpeed)

SpecSpeed == InitSpeed /\ [][NextSpeed]_vars

\* SpecReset: whole levels with mangos ahead and the invincibility timeouts
\* running: up to ResetFrames frames of play per level
ResetFrames == 2
ResetObjects == 1

EnvReset ==
    [frames |-> ResetFrames, idle |-> IdleFrames, seconds |-> TIME_BUDGET,
     objects |-> ResetObjects,
     heights |-> {-2500}, slopesX |-> {0}, slopesZ |-> {0}, demoForces |-> {0},
     names |-> {"Unnamed Monkey"},
     spawns |-> {Mango}]

InitReset == InitWith(FALSE, EnvReset)

NextReset ==
    \/ Animate(EnvReset)
    \/ AdvanceTime(EnvReset)
    \/ CountdownTick
    \/ SyncEffects
    \/ InvincibilityExpires
    \/ AdvanceLevel(EnvReset)

SpecReset == InitReset /\ [][NextReset]_vars

\* SpecSpawn: frames of play with room for the objects of one spawnObject
\* call: the first row of the level passes, and a frame spawns the next
SpawnFrames == 5
SpawnObjects == 7

EnvSpawn ==
    [frames |-> SpawnFrames, idle |-> IdleFrames, seconds |-> 0,
     objects |-> SpawnObjects,
     heights |-> {-2500}, slopesX |-> {0}, slopesZ |-> {0}, demoForces |-> {0},
     names |-> {"Unnamed Monkey"},
     spawns |-> {Tree, Banana}]

InitSpawn == InitWith(FALSE, EnvSpawn)

\* the oldest live object, the ones behind it, or all of them go by together
NextSpawn ==
    AnimateWith(EnvSpawn, {{}, {1}, 2..SpawnObjects, 1..SpawnObjects})

SpecSpawn == InitSpawn /\ [][NextSpawn]_vars

\* SpecStorage: deleteMonkey called on what an earlier session left in
\* localStorage: nothing, text that does not parse, or up to MaxMonkeys
\* monkeys with ids and creation times out of MonkeyIds and CreationTimes
MaxMonkeys == 3
MonkeyIds == {"monkey-1", "monkey-2"}
CreationTimes == 1..2

Monkeys ==
    [id : MonkeyIds, name : {<<"k", "o">>}, spriteSheet : {"sheet-1"},
     createdAt : CreationTimes, isPreset : BOOLEAN]

RECURSIVE ListsUpTo(_)
ListsUpTo(n) ==
    IF n = 0 THEN {<< >>}
    ELSE LET shorter == ListsUpTo(n - 1)
         IN  shorter \cup {Append(l, m) : l \in shorter, m \in Monkeys}

EnvStorage ==
    [objects |-> 0, spawns |-> {Tree}, names |-> {"Unnamed Monkey"},
     ids |-> MonkeyIds \cup {"monkey-0"}]

InitStorage ==
    /\ InitGame(FALSE, EnvStorage)
    /\ storage \in {NoItem, Unparsable} \cup {Stringify(l) : l \in ListsUpTo(MaxMonkeys)}
    /\ deleted = NoDelete
    /\ saved = NoSave
    /\ InitAudio
    /\ InitScreen

NextStorage == DeleteMonkey(EnvStorage)

SpecStorage == InitStorage /\ [][NextStorage]_vars

\* SpecSave: saveMonkey and deleteMonkey called in a browser that holds
\* nothing or text that does not parse under the key: up to SavedMonkeys
\* monkeys saved, localStorage accepting a write or refusing it
SavedMonkeys == 2

EnvSave ==
    [objects |-> 0, spawns |-> {Tree}, names |-> {"Unnamed Monkey"},
     monkeys |-> SavedMonkeys,
     ids |-> MonkeyIds \cup {"monkey-0"},
     rawNames |-> {<<" ", "k">>, <<"k", " ", "o", " ">>},
     sheets |-> {"sheet-1", "sheet-2"},
     times |-> CreationTimes,
     writes |-> {"ok", "quota", "other"}]

InitSave ==
    /\ InitGame(FALSE, EnvSave)
    /\ storage \in {NoItem, Unparsable}
    /\ deleted = NoDelete
    /\ saved = NoSave
    /\ InitAudio
    /\ InitScreen

NextSave ==
    \/ SaveMonkey(EnvSave)
    \/ DeleteMonkey(EnvSave)

SpecSave == InitSave /\ [][NextSave]_vars

\* SpecRetire: the demo, whose play never ends, with bananas ahead
\* and RetireObjects live objects.  z grows by speedRef >= 0.09 in every frame
\* of play, so the oldest live object crosses its next threshold after
\* finitely many frames.
RetireFrames == 3
RetireObjects == 1

EnvRetire ==
    [frames |-> RetireFrames, idle |-> IdleFrames, seconds |-> 0,
     objects |-> RetireObjects,
     heights |-> {-2500}, slopesX |-> {0}, slopesZ |-> {0}, demoForces |-> {0},
     names |-> {"Unnamed Monkey"},
     spawns |-> {Banana}]

InitRetire == InitWith(TRUE, EnvRetire)

NextRetire == AnimateFrames(EnvRetire, SUBSET (1..RetireObjects), TRUE)

\* a frame of play in which the oldest live object crosses a threshold: the
\* ground scrolls, and the loop removes the object or leaves it in the next
\* interval
OldestCrosses ==
    /\ mounted /\ GameplayRuns
    /\ objects # << >>
    /\ segZ' = ScrollGround(segZ, speed)
    /\ \/ \E gone \in {S \in SUBSET (1..Len(objects)) : 1 \in S} : retired' = gone
       \/ /\ 1 \notin retired'
          /\ objects'[1].zone = NextZone(objects[1].zone)

SpecRetire ==
    /\ InitRetire
    /\ [][NextRetire]_vars
    /\ WF_segZ(OldestCrosses)

\* SpecScroll: the ground scrolling frame after frame at speeds below
\* SEGMENT_LENGTH: the floor, half a segment, and just under a whole one
ScrollSpeeds == {SPEED_FLOOR, SEGMENT_LENGTH \div 2, SEGMENT_LENGTH - 1}

EnvScroll ==
    [objects |-> 0, spawns |-> {Tree}, names |-> {"Unnamed Monkey"},
     heights |-> {-2500, 0, 1500},
     speeds |-> ScrollSpeeds]

InitScroll == InitWith(FALSE, EnvScroll)

NextScroll == ScrollBy(EnvScroll)

SpecScroll == InitScroll /\ [][NextScroll]_vars

\* SpecFreeze: whole levels as in SpecLevel with one frame of play each on
\* an empty slope, and
\* key and pointer events arriving at any moment: during play, between the
\* countdown's last callback and the effects of the render it asks for, and
\* while the level is complete
FreezeFrames == 1
FreezeMoves == 1
FreezeObjects == 0

EnvFreeze ==
    [frames |-> FreezeFrames, idle |-> IdleFrames, seconds |-> TIME_BUDGET,
     objects |-> FreezeObjects, moves |-> FreezeMoves,
     heights |-> {-2500}, slopesX |-> {0}, slopesZ |-> {0}, demoForces |-> {0},
     names |-> {"Unnamed Monkey"},
     spawns |-> {Tree},
     keys |-> {"ArrowLeft", "ArrowUp", "Escape"},
     pointerXs |-> {100, 500}]

InitFreeze == InitWith(FALSE, EnvFreeze)

NextFreeze ==
    \/ Animate(EnvFreeze)
    \/ AdvanceTime(EnvFreeze)
    \/ CountdownTick
    \/ SyncEffects
    \/ AdvanceLevel(EnvFreeze)
    \/ KeyDown(EnvFreeze)
    \/ PointerDown(EnvFreeze)
    \/ PointerMove(EnvFreeze)
    \/ PointerUp

SpecFreeze == InitFreeze /\ [][NextFreeze]_vars

\* SpecDemo: the game mounted as the start screen's demo or as a game, whole
\* levels with up to DemoFrames frames of play each, the auto-steering force
\* at its extremes, and a pizza, a spaghetti, a ramp or a rock in the lane
DemoFrames == 3
DemoObjects == 1

EnvDemo ==
    [frames |-> DemoFrames, idle |-> IdleFrames, seconds |-> TIME_BUDGET,
     objects |-> DemoObjects,
     heights |-> {-2500}, slopesX |-> {0}, slopesZ |-> {0},
     demoForces |-> {-900, 900},
     names |-> {"Unnamed Monkey"},
     spawns |-> {Pizza, Spaghetti, Ramp, Rock}]

InitDemo == InitWith(TRUE, EnvDemo) \/ InitWith(FALSE, EnvDemo)

NextDemo ==
    \/ Animate(EnvDemo)
    \/ AdvanceTime(EnvDemo)
    \/ CountdownTick
    \/ SyncEffects
    \/ AdvanceLevel(EnvDemo)

SpecDemo == InitDemo /\ [][NextDemo]_vars

\* SpecAudio: the audio service under any sequence of playlist calls,
\* subscriptions and seconds of play
EnvAudio ==
    [objects |-> 0, spawns |-> {Tree}, names |-> {"Unnamed Monkey"}]

InitAudioService == InitWith(TRUE, EnvAudio)

NextAudio ==
    \/ StartMenuMusic
    \/ NextTrack
    \/ PreviousTrack
    \/ TrackPlays
    \/ ResumeMenuMusic
    \/ OnTrackChange
    \/ Unsubscribe

SpecAudio == InitAudioService /\ [][NextAudio]_vars

\* SpecCharacter: the character screen over a browser that holds two saved
\* monkeys, any sequence of its buttons and inputs, one sprite to generate,
\* and the game left again by its Exit button
Koko == [id |-> "monkey-1", name |-> <<"k", "o">>, spriteSheet |-> "sheet-1",
         createdAt |-> 1, isPreset |-> FALSE]
Momo == [id |-> "monkey-2", name |-> <<"m", "o">>, spriteSheet |-> "sheet-2",
         createdAt |-> 2, isPreset |-> FALSE]

EnvCharacter ==
    [objects |-> 0, spawns |-> {Tree}, names |-> {<<"u">>},
     ids |-> {"monkey-3", "monkey-4"},
     rawNames |-> {<<" ">>, <<"g", "o", " ">>},
     sheets |-> {"sheet-3"},
     times |-> {3},
     writes |-> {"ok"}]

InitCharacter ==
    /\ InitGame(FALSE, EnvCharacter)
    /\ storage = Stringify(<<Koko, Momo>>)
    /\ deleted = NoDelete
    /\ saved = NoSave
    /\ InitAudio
    /\ InitScreen

NextCharacter ==
    \/ SetActiveTab
    \/ SelectMonkey
    \/ ScreenDeletes
    \/ Generate
    \/ Generated(EnvCharacter)
    \/ TypeName(EnvCharacter)
    \/ Play(EnvCharacter)
    \/ ExitGame

SpecCharacter == InitCharacter /\ [][NextCharacter]_vars

\* ------------------------------------------------------------------- claims
\* C2: a collision with an object is resolved at most once.  An object's hit
\* flag is true exactly when its collision has been resolved, once (so the flag
\* never returns to false and no second resolution runs, however many frames
\* the object stays in the hitbox); and a frame of play that resolves no
\* collision changes neither score nor isInvincible nor its timers, and does
\* not launch the player.
C2_ResolvedAtMostOnce ==
    /\ [](\A i \in DOMAIN objects :
            objects[i].res <= 1 /\ (objects[i].hit <=> objects[i].res = 1))
    /\ [][(frames' = frames + 1 /\ resolved' = << >>) =>
            /\ score' = score
            /\ isInvincible' = isInvincible
            /\ invTimers' = invTimers
            /\ isAirborne' => isAirborne
            /\ ~isAirborne => velY' = velY]_vars

\* a resolved object that stayed in the hitbox for two more frames
C2_Witness ==
    \E i \in DOMAIN objects :
        objects[i].hit /\ objects[i].zone = "near" /\ objects[i].over >= 2

\* C4 (as claimed): while the timeout of a collected mango is pending with
\* time left, isInvincible is true, also when an earlier mango's timeout is
\* still pending.
C4_InvincibleUntilOwnTimeout ==
    \A i \in DOMAIN invTimers : invTimers[i] > 0 => isInvincible

\* C3: score is never negative; a frame lowers it only when it resolves a
\* pizza, and then to max(0, score - 50); the only other step that lowers it
\* is startGame on the advance button, which resets it to 0.
C3_ScoreFloor ==
    /\ [](score >= 0)
    /\ [][score' < score =>
            \/ /\ frames' = frames + 1
               /\ \E i \in DOMAIN resolved' : resolved'[i] = "pizza"
               /\ Len(resolved') = 1 => score' = Max(0, score - PIZZA_PENALTY)
            \/ /\ gameState = "LEVEL_COMPLETE" /\ gameState' = "PLAYING"
               /\ score' = 0]_vars

\* a pizza resolved with a score below the penalty left the score at 0
C3_Witness == resolved = <<"pizza">> /\ score = 0 /\ frames > 0

\* C3 (as claimed): score is never negative, and no operation other than a
\* pizza hit lowers it.
C3_OnlyPizzaLowersScore ==
    /\ [](score >= 0)
    /\ [][score' < score =>
            /\ frames' = frames + 1
            /\ \E i \in DOMAIN resolved' : resolved'[i] = "pizza"]_vars

\* C5: the advance action, the step from LEVEL_COMPLETE to PLAYING, raises
\* level by exactly 1, resets score to 0 and timeRemaining to the full budget,
\* and leaves only objects spawned for the new level, none of them hit; level
\* changes in no other step, so it never decreases.
C5_AdvanceStartsNextLevel ==
    [][/\ (gameState = "LEVEL_COMPLETE" /\ gameState' = "PLAYING") =>
            /\ level' = level + 1
            /\ levelRef' = level'
            /\ score' = 0
            /\ timeRemaining' = TIME_BUDGET
            /\ \A i \in DOMAIN objects' :
                 objects'[i].born = level' /\ ~objects'[i].hit /\ objects'[i].res = 0
       /\ level' # level => (gameState = "LEVEL_COMPLETE" /\ gameState' = "PLAYING")]_vars

\* level 2 has just been started after a level 1 in which an object was hit
C5_Witness ==
    /\ level = 2 /\ gameState = "PLAYING" /\ ticks = 0 /\ frames = 0
    /\ objects # << >>
    /\ Len(sessionScores) = 1 /\ sessionScores[1].score > 0

\* C6: the phase starts as PLAYING at level 1 and is always PLAYING or
\* LEVEL_COMPLETE; it leaves PLAYING only for LEVEL_COMPLETE, in the countdown
\* callback that brings timeRemaining to 0, and leaves LEVEL_COMPLETE only for
\* PLAYING, in the advance action.
C6_PhaseMachine ==
    /\ gameState = "PLAYING" /\ level = 1
    /\ [](gameState \in {"PLAYING", "LEVEL_COMPLETE"})
    /\ [][gameState' # gameState =>
            \/ /\ gameState = "PLAYING" /\ gameState' = "LEVEL_COMPLETE"
               /\ ticks' = ticks + 1 /\ timeRemaining' = 0
            \/ /\ gameState = "LEVEL_COMPLETE" /\ gameState' = "PLAYING"
               /\ level' = level + 1]_vars

\* the second level has been completed as well
C6_Witness == gameState = "LEVEL_COMPLETE" /\ level = 2 /\ Len(sessionScores) = 2

\* C7: in non-demo play each countdown callback lowers timeRemaining by
\* exactly 1 from the full budget, timeRemaining is never negative, the phase
\* is LEVEL_COMPLETE exactly from the 60th callback of the level on, and with
\* the timers running every level that is being played is completed.
C7_Countdown ==
    /\ [](timeRemaining >= 0)
    /\ [](gameState = "PLAYING" => timeRemaining = TIME_BUDGET - ticks)
    /\ [](gameState = "LEVEL_COMPLETE" <=> ticks = TIME_BUDGET)
    /\ [][ticks' = ticks + 1 => timeRemaining' = timeRemaining - 1]_vars
    /\ [](gameState = "PLAYING" => <>(gameState = "LEVEL_COMPLETE"))

\* the 60th callback of the second level has just run
C7_Witness ==
    /\ level = 2 /\ ticks = TIME_BUDGET /\ timeRemaining = 0
    /\ gameState = "LEVEL_COMPLETE" /\ gameStateRef = "PLAYING"

\* C8: a frame callback that runs while the phase is LEVEL_COMPLETE changes
\* no gameplay state: segment positions, the live objects, lateralPosition,
\* the player's position, verticalVelocity, isAirborne, currentSpeed, score;
\* it spawns nothing and resolves nothing.
C8_FrozenWhileLevelComplete ==
    [][(gameState = "LEVEL_COMPLETE" /\ idle' = idle + 1) =>
          UNCHANGED <<segZ, objects, playerX, posX, posY, velY, isAirborne,
                      speed, score, isInvincible, resolved, frames>>]_vars

\* two frame callbacks have run since the level was completed, an object
\* still ahead of the player
C8_Witness ==
    /\ gameState = "LEVEL_COMPLETE" /\ idle = IdleFrames
    /\ \E i \in DOMAIN objects : objects[i].zone = "ahead"

\* C1 (as claimed): lateralPosition is within [-PLAY_WIDTH, PLAY_WIDTH] in
\* every reachable state, the states between a pointer-move event and the next
\* frame included.
C1_LateralClamp == Abs(playerX) <= PLAY_WIDTH

\* C9: after any number of frames at any speeds there are exactly
\* SEGMENT_COUNT ground segments, and their z positions taken modulo
\* SEGMENT_LENGTH * SEGMENT_COUNT are pairwise distinct and SEGMENT_LENGTH apart.
C9_SegmentsEvenlySpaced ==
    /\ Len(segZ) = SEGMENT_COUNT
    /\ \A i, j \in DOMAIN segZ :
         i # j => (segZ[i] - segZ[j]) % (SEGMENT_LENGTH * SEGMENT_COUNT)
                    \in {k * SEGMENT_LENGTH : k \in 1..(SEGMENT_COUNT - 1)}

\* the first segment has passed the player and wrapped behind the last one
C9_Witness == segZ[1] < segZ[3] /\ frames > 0

\* C10: a jump that starts at groundY over constant ground is over within
\* 36 frames (2 * 0.45 / 0.025); in every frame of a jump gravity lowers
\* verticalVelocity by 0.025 and y moves by it, and the jump ends in the first
\* frame where that brings y to groundY or below, not earlier: there y is set
\* to groundY and, unless a ramp launches the player again in the same frame,
\* verticalVelocity to 0 and isAirborne to false.
C10_JumpLands ==
    /\ [](jump.flat => jump.n <= 2 * (JUMP_VELOCITY \div GRAVITY))
    /\ [](jump.flat /\ isAirborne => jump.n < 2 * (JUMP_VELOCITY \div GRAVITY))
    /\ [][(frames' = frames + 1 /\ isAirborne) =>
            IF posY + velY - GRAVITY <= jump'.groundY
            THEN /\ posY' = jump'.groundY
                 /\ isAirborne' => jump'.n = 0 /\ velY' = JUMP_VELOCITY
                 /\ ~isAirborne' => velY' = 0 /\ jump'.n = jump.n + 1
            ELSE /\ isAirborne'
                 /\ velY' = velY - GRAVITY
                 /\ posY' = posY + velY'
                 /\ jump'.n = jump.n + 1]_vars

\* a jump from groundY over constant ground has landed
C10_Witness ==
    /\ ~isAirborne /\ jump.flat /\ jump.n > 0
    /\ posY = jump.groundY /\ velY = 0

\* C11: a frame that resolves a ramp with the player on the ground launches
\* the player (isAirborne, verticalVelocity 0.45), adds 0.03 to the relaxed
\* currentSpeed and, in non-demo play, adds 200 to score (in the demo score is
\* unchanged); a frame that resolves a ramp with the player in the air leaves
\* the jump, score and currentSpeed as the frame's physics alone set them.
C11_RampLaunch ==
    [][(frames' = frames + 1 /\ resolved' = <<"ramp">>) =>
         /\ ~isAirborne =>
              /\ isAirborne' /\ velY' = JUMP_VELOCITY
              /\ score' = IF isDemo THEN score ELSE score + RAMP_POINTS
              /\ speed' = RelaxSpeed(speed, levelRef, 0) + RAMP_SPEED_BOOST
         /\ (isAirborne /\ jump'.n > 0) =>
              /\ isAirborne' /\ velY' = velY - GRAVITY
              /\ score' = score
              /\ speed' = RelaxSpeed(speed, levelRef, 0)]_vars

\* a ramp has been resolved in the air, in the game
C11_Witness ==
    /\ ~isDemo /\ resolved = <<"ramp">> /\ isAirborne /\ jump.n > 0
    /\ \E i \in DOMAIN objects : objects[i].type = "ramp" /\ objects[i].hit

\* C11 (as claimed): resolving a ramp on the ground launches the player and
\* adds 200 to score and 0.03 to currentSpeed; resolving it in the air changes
\* none of them.
C11_RampAlwaysScores ==
    [][(frames' = frames + 1 /\ resolved' = <<"ramp">>) =>
         /\ ~isAirborne =>
              /\ isAirborne' /\ velY' = JUMP_VELOCITY
              /\ score' = score + RAMP_POINTS
              /\ speed' = RelaxSpeed(speed, levelRef, 0) + RAMP_SPEED_BOOST
         /\ (isAirborne /\ jump'.n > 0) =>
              /\ isAirborne' /\ velY' = velY - GRAVITY
              /\ score' = score
              /\ speed' = RelaxSpeed(speed, levelRef, 0)]_vars

\* C12: in non-demo play a frame that resolves one collectible changes score
\* by exactly +100 for a banana, +500 for a mango, +1000 for spaghetti, and to
\* max(0, score - 50) for a pizza.
C12_CollectibleScores ==
    [][(frames' = frames + 1 /\ ~isDemo /\ Len(resolved') = 1) =>
         /\ resolved'[1] = "banana" => score' = score + BANANA_POINTS
         /\ resolved'[1] = "mango" => score' = score + MANGO_POINTS
         /\ resolved'[1] = "spaghetti" => score' = score + SPAGHETTI_POINTS
         /\ resolved'[1] = "pizza" => score' = Max(0, score - PIZZA_PENALTY)]_vars

\* a mango, then a pizza: 500 - 50
C12_Witness ==
    ~isDemo /\ resolved = <<"pizza">> /\ score = MANGO_POINTS - PIZZA_PENALTY

\* C13: a frame that resolves an obstacle leaves score unchanged; with
\* isInvincible false it sets currentSpeed to the near-stop value 0.1, with
\* isInvincible true it leaves currentSpeed as the frame's relaxation set it
\* and shrinks the obstacle instead; and a frame that starts at the near-stop
\* value and resolves nothing raises currentSpeed again.
C13_CrashAndRecover ==
    /\ [][(frames' = frames + 1 /\ resolved' = <<"rock">>) =>
            /\ score' = score
            /\ ~isInvincible =>
                 /\ speed' = CRASH_SPEED
                 /\ \A i \in DOMAIN objects' : ~objects'[i].shrunk
            /\ isInvincible =>
                 /\ speed' = RelaxSpeed(speed, levelRef, 0)
                 /\ \E i \in DOMAIN objects' :
                      objects'[i].subtype = "rock" /\ objects'[i].hit /\ objects'[i].shrunk]_vars
    /\ [][(frames' = frames + 1 /\ resolved' = << >> /\ speed = CRASH_SPEED) =>
            (speed' > CRASH_SPEED /\ speed' <= LevelSpeed(levelRef))]_vars

\* a rock has been hit while invincible, and shrunk
C13_Witness ==
    /\ resolved = <<"rock">> /\ isInvincible
    /\ \E i \in DOMAIN objects : objects[i].hit /\ objects[i].shrunk

\* C14 (as claimed): once the component is unmounted, no callback changes the
\* gameplay state (segments, objects, the player's state with isInvincible,
\* score), timeRemaining or the phase.
C14_QuietAfterTeardown ==
    [][~mounted =>
         UNCHANGED <<segZ, objects, playerX, posX, posY, velY, isAirborne, speed,
                     isInvincible, score, timeRemaining, gameState, gameActive,
                     level, sessionScores, frames, ticks>>]_vars

\* C15: the step from PLAYING to LEVEL_COMPLETE appends exactly one record
\* to the session leaderboard, with the monkey name, the score at that moment
\* and the level just completed; no other step changes the leaderboard.
C15_OneRecordPerLevel ==
    /\ [][(gameState = "PLAYING" /\ gameState' = "LEVEL_COMPLETE") =>
            sessionScores' = Append(sessionScores,
                               [monkeyName |-> monkeyName, score |-> score, level |-> level])]_vars
    /\ [][sessionScores' # sessionScores =>
            (gameState = "PLAYING" /\ gameState' = "LEVEL_COMPLETE")]_vars

\* two levels completed by Koko, the first with points, and the component
\* unmounted afterwards
C15_Witness ==
    /\ Len(sessionScores) = 2 /\ ~mounted
    /\ sessionScores[1] = [monkeyName |-> "Koko", score |-> SPAGHETTI_POINTS, level |-> 1]
    /\ sessionScores[2].level = 2

\* C16: getTerrainHeight is periodic in z with period SEGMENT_LENGTH (Turn
\* steps of z): the height sampled at (x, z) is the height at (x, z + 50) and
\* at (x, z - 50).
C16_TerrainPeriodic ==
    /\ terrain.height = getTerrainHeight(terrain.x, terrain.z + Turn)
    /\ terrain.height = getTerrainHeight(terrain.x, terrain.z - Turn)

\* a sample off the centre line and inside a segment, where the terrain is
\* not level: its neighbour in z has another height
C16_Witness ==
    /\ terrain.x # 0 /\ terrain.z % Turn # 0
    /\ terrain.height # getTerrainHeight(terrain.x, terrain.z + 1)

\* C17: currentSpeed is strictly positive and never below the floor of 0.09, in
\* every state: after startGame, after each frame, and right after a crash.
C17_SpeedFloor == speed > 0 /\ speed >= SPEED_FLOOR

\* a crash on a downhill stretch has just set the speed, in a later level
C17_Witness ==
    /\ gameStateRef = "PLAYING" /\ levelRef = 2
    /\ resolved = <<"rock">> /\ speed = CRASH_SPEED

\* C18: every startGame resets the whole player state: right after it the
\* steering target, the steering direction and the vertical velocity are 0,
\* the player is neither airborne nor invincible, and the speed is
\* WORLD_SPEED_BASE + level * 0.022.
C18_StartGameResetsPlayer ==
    [][level' # level =>
         /\ playerX' = 0 /\ moveDirection' = 0 /\ velY' = 0
         /\ ~isAirborne' /\ ~isInvincible'
         /\ speed' = WORLD_SPEED_BASE + levelRef' * LEVEL_SPEED_STEP]_vars

\* C19 (amended): each spawnObject call adds exactly seven new entities, each
\* with hit = false, to the live collection (the drawn object, then three
\* barrier trees on either side), and each frame makes at most one call, so
\* the live-object count grows by at most seven per frame.  The frame's push is
\* whole wherever the collection modelled has room for it.
C19_SpawnAddsRow ==
    [][frames' = frames + 1 =>
         /\ Len(objects') <= Len(objects) + SpawnSize
         /\ Len(objects) + SpawnSize <= SpawnObjects => pushed' \in {0, SpawnSize}
         /\ pushed' > 0 =>
              \A i \in (Len(objects') - pushed' + 1)..Len(objects') :
                 ~objects'[i].hit /\ objects'[i].zone = "ahead"
         /\ \A c \in EnvSpawn.spawns :
              LET r == SpawnObject(objects, c, levelRef, Len(objects) + SpawnSize)
              IN  /\ Len(r) = Len(objects) + SpawnSize
                  /\ SubSeq(r, 1, Len(objects)) = objects
                  /\ \A i \in (Len(objects) + 1)..Len(r) : ~r[i].hit]_vars

\* a frame has pushed a whole row after the level's first objects went by
C19_Witness ==
    /\ frames > 0 /\ pushed = SpawnSize /\ Len(objects) = SpawnSize
    /\ \A i \in DOMAIN objects : ~objects[i].hit

\* C19 (as claimed): each spawnObject call adds exactly one new entity, with
\* hit = false, and the live-object count grows by at most one per frame.
C19_SpawnAddsOne ==
    [][frames' = frames + 1 =>
         /\ Len(objects') <= Len(objects) + 1
         /\ pushed' <= 1
         /\ pushed' > 0 => ~objects'[Len(objects')].hit]_vars

\* C20: deleteMonkey(id) returns false and leaves the stored list unchanged
\* when no saved monkey has that id or the monkey with that id (the first, as
\* find returns it) is a preset; otherwise it returns true and the stored list
\* afterwards is the list before without the monkeys with that id, in the
\* same order.
C20_DeleteMonkey ==
    deleted.called =>
        LET before == getSavedMonkeys(deleted.before)
            after == getSavedMonkeys(storage)
            withId == {i \in DOMAIN before : before[i].id = deleted.id}
            first == CHOOSE i \in withId : \A j \in withId : i <= j
            IsOther(m) == m.id # deleted.id
        IN  IF withId = {} \/ before[first].isPreset
            THEN ~deleted.result /\ storage = deleted.before
            ELSE deleted.result /\ after = SelectSeq(before, IsOther)

\* a delete has removed two monkeys with the same id and kept another one
C20_Witness ==
    /\ deleted.called /\ deleted.result
    /\ Len(getSavedMonkeys(deleted.before)) = MaxMonkeys
    /\ Len(getSavedMonkeys(storage)) = MaxMonkeys - 2

\* C21: when storage accepts the write, after saveMonkey(name, sheet) the
\* saved list is the list before followed by exactly one new entry, whose name
\* is the trimmed name, whose spriteSheet is sheet and whose isPreset is false;
\* that entry is the value saveMonkey returned.
C21_SaveRoundTrip ==
    [][(saved'.called /\ saved' # saved /\ saved'.first = "ok") =>
          LET before == getSavedMonkeys(storage)
              after == getSavedMonkeys(storage')
              entry == after[Len(after)]
              typed == saved'.name
          IN  /\ saved'.returned
              /\ saved'.before = storage
              /\ Len(after) = Len(before) + 1
              /\ SubSeq(after, 1, Len(before)) = before
              /\ entry = saved'.monkey
              /\ entry.spriteSheet = saved'.sheet
              /\ ~entry.isPreset
              /\ entry.name # << >> =>
                    Head(entry.name) # " " /\ entry.name[Len(entry.name)] # " "
              /\ \E i, j \in 0..Len(typed) :
                    /\ i + Len(entry.name) + j = Len(typed)
                    /\ SubSeq(typed, i + 1, i + Len(entry.name)) = entry.name
                    /\ \A k \in (1..i) \cup ((Len(typed) - j + 1)..Len(typed)) :
                          typed[k] = " "]_vars

\* a name typed with blanks around it has been saved after another monkey
C21_Witness ==
    /\ saved.called /\ saved.first = "ok"
    /\ Len(getSavedMonkeys(saved.before)) > 0
    /\ saved.name # saved.monkey.name
    /\ Len(saved.monkey.name) > 1

\* C22: when the write in saveMonkey fails with QuotaExceededError, the oldest
\* saved monkey (smallest createdAt) is removed and the new monkey is stored:
\* after saveMonkey returns, the new monkey is in the saved list, also when
\* the saved list was empty before the call.
C22_QuotaFallback ==
    [][(saved'.called /\ saved' # saved /\ saved'.first = "quota" /\ saved'.returned) =>
          LET before == getSavedMonkeys(storage)
              after == getSavedMonkeys(storage')
              Range(list) == {list[i] : i \in DOMAIN list}
          IN  /\ saved'.monkey \in Range(after)
              /\ before # << >> =>
                   \E k \in DOMAIN before :
                      /\ \A i \in DOMAIN before : before[k].createdAt <= before[i].createdAt
                      /\ Range(after) = (Range(before) \ {before[k]}) \cup {saved'.monkey}]_vars

\* C23: objects are retired once passed.  At the end of every frame of play no
\* live object has z > 20; a resolved collectible is invisible and stays in
\* the live collection until the frame that removes it, which finds it past
\* the player; and while frames of play go on, the oldest live object is
\* eventually removed, so every live object is.
C23_RetiredOncePassed ==
    /\ [](\A i \in DOMAIN objects :
            /\ objects[i].zone # "gone"
            /\ (objects[i].type = "collectible" /\ objects[i].hit) => ~objects[i].visible)
    /\ [][/\ Len(objects') = Len(objects) + pushed' - Cardinality(retired')
          /\ \A i \in DOMAIN objects :
               LET k == i - Cardinality({j \in retired' : j < i})
               IN  /\ i \in retired' => objects[i].zone = "passed"
                   /\ (i \notin retired' /\ objects[i].type = "collectible" /\ objects[i].hit) =>
                        /\ objects'[k].subtype = objects[i].subtype
                        /\ objects'[k].hit /\ ~objects'[k].visible]_vars
    /\ (objects # << >>) ~> (1 \in retired)

\* a frame of the demo has removed the oldest live object and left none
C23_Witness ==
    /\ retired = {1} /\ objects = << >> /\ pushed = 0
    /\ frames = RetireFrames /\ score = 0 /\ isDemo

\* C24: in every frame of play at a speed below SEGMENT_LENGTH, the segments
\* as scrolled hold one with z strictly between -SEGMENT_LENGTH / 2 and
\* 1.5 * SEGMENT_LENGTH, so the frame reads the terrain's sample and not the
\* flat fallback; the fallback is what is read only where no segment is in
\* that range.
C24_ActiveSegment ==
    [][segZ' # segZ =>
         /\ \E i \in DOMAIN segZ' :
               segZ'[i] > -(SEGMENT_LENGTH \div 2) /\ 2 * segZ'[i] < 3 * SEGMENT_LENGTH
         /\ \A h \in EnvScroll.heights : Sampled(segZ', h) = h]_vars

\* the segment that started under the player has scrolled past it and was
\* wrapped to the far end, and one segment is left in range
C24_Witness ==
    /\ segZ[1] < -SEGMENT_LENGTH
    /\ Cardinality({i \in DOMAIN segZ : IsActiveSegment(segZ[i])}) = 1

\* C25 (as claimed): once the level has completed and gameplay is frozen, and
\* until the next startGame, no step (no key or pointer event in particular)
\* changes moveDirection, lateralPosition or the dragging flag; and
\* moveDirection is one of -1, 0, 1 in every state.
C25_InputOnlyDuringPlay ==
    /\ [][(~gameActive /\ ~gameActive') =>
             UNCHANGED <<moveDirection, playerX, isDragging>>]_vars
    /\ [](moveDirection \in {-1, 0, 1})

\* C26 (as claimed): a key press that handleKeyDown accepts calls
\* audioService.playSkiingSound() once if moveDirection after the press
\* differs from moveDirection before it, the first turn after a level
\* restart included, and not at all if the press leaves it unchanged.
C26_SkiingOnTurns ==
    [][press'.turn # press.turn =>
          press'.sounds = (IF moveDirection' # moveDirection THEN 1 ELSE 0)]_vars

\* C27: in demo mode the score is 0, the phase is PLAYING, the countdown is
\* not running and has never run, timeRemaining is TIME_BUDGET, the session
\* leaderboard has no record and no frame has asked for a toast, in every
\* state, whatever the player has hit.
C27_DemoNeverScores ==
    isDemo =>
      /\ score = 0
      /\ gameState = "PLAYING" /\ gameStateRef = "PLAYING" /\ gameActive
      /\ countdown = << >> /\ ticks = 0
      /\ timeRemaining = TIME_BUDGET
      /\ sessionScores = << >>
      /\ toasts = 0

\* the demo's player has just run into a spaghetti in its last frame
C27_Witness ==
    /\ isDemo /\ frames = DemoFrames
    /\ resolved = <<"spaghetti">>
    /\ \E i \in DOMAIN objects : objects[i].hit /\ ~objects[i].visible

\* C28: currentTrackIndex is within [0, PLAYLIST_LENGTH) after any sequence of
\* startMenuMusic, nextTrack and previousTrack calls; nextTrack moves to
\* (index + 1) mod length; previousTrack moves to (index - 1) mod length if
\* at most RESTART_AFTER seconds of the track have played and otherwise keeps
\* the index and restarts the track; a previousTrack right after a nextTrack
\* is back at the index before the nextTrack; and each of these calls calls
\* every listener subscribed at that moment once and no other callback.
C28_PlaylistRotation ==
    /\ [](/\ currentTrackIndex \in 0..(PLAYLIST_LENGTH - 1)
          /\ trackCall.op = "nextTrack" =>
               /\ currentTrackIndex = (trackCall.index + 1) % PLAYLIST_LENGTH
               /\ menuAudio.currentTime = 0
          /\ (trackCall.op = "previousTrack" /\ trackCall.played <= RESTART_AFTER) =>
               currentTrackIndex = (trackCall.index - 1) % PLAYLIST_LENGTH
          /\ (trackCall.op = "previousTrack" /\ trackCall.played > RESTART_AFTER) =>
               /\ currentTrackIndex = trackCall.index
               /\ menuAudio.currentTime = 0
          /\ trackCall.op # "none" =>
               \A cb \in Callbacks :
                  trackCall.notified[cb] = IF cb \in trackChangeListeners THEN 1 ELSE 0)
    /\ [][(trackCall.op = "nextTrack" /\ trackCall'.op = "previousTrack") =>
             currentTrackIndex' = trackCall.index]_vars

\* previousTrack has restarted the first track, which had played more than
\* RESTART_AFTER seconds, with one of two callbacks subscribed
C28_Witness ==
    /\ trackCall.op = "previousTrack" /\ trackCall.played > RESTART_AFTER
    /\ currentTrackIndex = 0 /\ trackCall.index = 0
    /\ trackChangeListeners = {"cb-2"}
    /\ trackCall.notified["cb-2"] = 1

\* C29 (as claimed): whenever the character screen has started the game, the
\* sprite sheet last reported through onSpriteGenerated and the name last
\* reported through onMonkeySelected are the sprite sheet and the name of one
\* monkey: one of the saved monkeys, the one just created included.
C29_SpriteAndNameAgree ==
    [][(mode = "CREATE" /\ mode' = "GAME") =>
          \E i \in DOMAIN getSavedMonkeys(storage') :
             /\ getSavedMonkeys(storage')[i].spriteSheet = generatedSprite'
             /\ getSavedMonkeys(storage')[i].name = monkeyName']_vars

====
